---- MODULE Spec2Model ----
(***************************************************************************)
(* Verification model of the multi-tenant parallel inference orchestrator  *)
(* of gnc-phase1-backend: the concurrency governor of the two controllers  *)
(* (UltraFastUserManager / ImageProcessingManager), the request handlers   *)
(* that reserve and release its slots, the session store, the              *)
(* per-credential rate limiter and the batch analysis pipeline.            *)
(*                                                                         *)
(* Node runs every handler on one event loop: the code between two awaits  *)
(* is one atomic step, so each action below is one such synchronous run.   *)
(***************************************************************************)
EXTENDS Integers, Sequences, FiniteSets, TLC

\* ------------------------------------------------------------------------
\* Bounds of the exploration
\* ------------------------------------------------------------------------
\* requests issued to one controller in one run
MaxJobs == 4
\* uploads followed through the session store, and the pages of each
MaxSessions == 2
MaxPages == 2
\* hours the clock of the session store advances
MaxHours == 3
\* pages of the document whose conversion loop is followed
MaxPdfPages == 3
\* images submitted to one analysis
MaxImages == 3
\* callers of the rate limiter, and the last instant of its clock (ms)
MaxCalls == 66
MaxTime == 70000
\* calls issued to the pool of two credentials
MaxPoolCalls == 5
\* images of the largest request whose batches are modelled
MaxBatchImages == 10

\* ------------------------------------------------------------------------
\* Program constants
\* ------------------------------------------------------------------------
maxConcurrentPerUser == 3
maxGlobalConcurrent == 15
\* cleanupOldSessions: maxAge = 2 * 60 * 60 * 1000 ms, in hours
maxAge == 2
\* retryUltraFast: attempts per page
maxRetries == 2
\* UltraFastRateLimiter: the two limits, the two windows (ms) and the margins
\* added to the two waits (ms)
maxRequestsPerMinute == 60
burstLimit == 10
burstWindow == 10000
minuteWindow == 60000
burstBuffer == 100
rateBuffer == 200
\* geminiService.js line 281: requests per key at the same time
PerKey == 8

Tenants == {"u1", "u2"}
\* the tenant whose requests are followed step by step; the admitted jobs of
\* the other tenant are followed only as a reservation and its release
Uploaders == {"u1"}
NoUser == "-"
Jobs == 1..MaxJobs
NoSid == 0
\* an image file name page_<n>_<userHash>_<timestamp>_<random>.png is the pair
\* of the session whose id carries the timestamp (and whose user the hash) and
\* the page number; BadName is a name the route's filenamePattern rejects
Pages == 1..MaxPages
BadName == <<0, 0>>
FileNames == (Jobs \X Pages) \cup {BadName}

VARIABLES
  ctl,                      \* which controller module the run exercises
  pc, kind, owner,          \* per request: position, handler, req.user.id
  shouldCancel, isCleanedUp, \* per request: the two closure flags
  userProcessingQueues,     \* userId -> activeCount
  globalActiveCount,
  activeProcessingSessions, \* sessionId -> entry (userId, cancel closure)
  otherHeld,                \* running jobs of the tenants not in Uploaders
  userSessions,             \* sessionStore.userSessions
  sessionData,              \* sessionStore.sessionData (userId)
  createdAt,                \* sessionStore.sessionData (createdAt)
  stamp,                    \* per request: the Date.now() in its session id
  images,                   \* sessionStore.sessionData (images)
  imageOwnership,           \* sessionStore.imageOwnership
  disk,                     \* the files of temp_images
  cleaning,                 \* cleanupSessionImages calls awaiting readdir
  now,                      \* Date.now(), in hours
  bpc, bkind,               \* the job whose pipeline is followed: position, handler
  bCancel,                  \* its shouldCancel (or req.aborted, res.destroyed)
  pageCount, convPage, convEnd, \* conversion loop: pages, current page, batchEnd
  selected,                 \* selectedImages / images of the request
  ist, attempt, outcome,    \* per image: position, retry attempt, last call's outcome
  results, completedCount,  \* analyzeImagesUltraFast: results, completedCount
  rejected,                 \* a processImage promise rejected
  progressLog,              \* the completed values of the progress events written
  allPagesData,             \* allPagesData of the complete event
  events,                   \* the events written to the stream of that job
  limNow,                   \* Date.now() of the rate limiter, in ms
  keyUsage,                 \* keyIndex -> requests, burstRequests
  sleepers,                 \* the timers of suspended waitIfNeeded calls
  calls, entered,           \* callers so far; callers entered at this instant
  retryPc,                  \* the retryUltraFast call followed: its position
  retryKeys,                \* the keyIndex of each of its invocations of fn
  raised,                   \* the errors fn raised, in order (the last: lastError)
  retryResult,              \* what it returned or threw
  passes,                   \* the waitIfNeeded caller followed: how each of its passes ended
  delays,                   \* the delays retryUltraFast awaited, in order
  conversion,               \* the convertPDFPageToImage call followed
  stamping,                 \* the results loop of the job followed and its payload
  requestQueue,             \* a RequestQueue and the functions added to it
  exited,                   \* process.exit was called
  response                  \* the JSON response being written, if any

govVars == <<ctl, pc, kind, owner, shouldCancel, isCleanedUp,
             userProcessingQueues, globalActiveCount,
             activeProcessingSessions, otherHeld, exited, response>>
storeVars == <<userSessions, sessionData, createdAt, stamp, images,
               imageOwnership, disk, cleaning, now>>
batchVars == <<bpc, bkind, bCancel, pageCount, convPage, convEnd, selected,
               ist, attempt, outcome, results, completedCount, rejected,
               progressLog, allPagesData, events>>
backoffVars == <<delays, conversion>>
otherVars == <<stamping, requestQueue>>
retryVars == <<retryPc, retryKeys, raised, retryResult, passes, backoffVars,
               otherVars>>
limVars == <<limNow, keyUsage, sleepers, calls, entered, retryVars>>
vars == <<govVars, storeVars, batchVars, limVars>>

NoEntry == [userId |-> NoUser, cancelJob |-> 0]
NoSession == [userId |-> NoUser]
NoFile == <<>>
\* one configured credential (API_KEYS); a credential with no entry in
\* keyUsage is read as two empty timestamp lists
Keys == {0}
NoKeyData == [requests |-> <<>>, burstRequests |-> <<>>]
\* no results loop has started
NoStamping == [pc |-> "idle", sessionId |-> 0, userId |-> "-", pages |-> <<>>,
               i |-> 1, collectedResult |-> <<>>]
\* new RequestQueue(): the fields of the constructor; nothing was added
\* (queue holds the functions by the number of their add call; requestTimes
\* holds, for each time pushed, the ms that have passed since; running are
\* the functions awaited, timers the ms left of each setTimeout, started the
\* functions in the order they were called with the ms since each call,
\* settled the state of the promise each add returned)
NewRequestQueue ==
  [queue |-> <<>>, requestTimes |-> <<>>, processing |-> FALSE,
   running |-> {}, timers |-> <<>>, started |-> <<>>, startedAgo |-> <<>>,
   settled |-> <<>>]
NoOutcome == [signals |-> "none", message |-> <<>>]
FnResult == [signals |-> "result", message |-> <<>>]
NoResponse == [op |-> "none", userId |-> NoUser, file |-> NoFile, status |-> 0]

\* res.status(status).json(...) of handler op to the request of userId; file
\* is the name an image request asked for
Response(op, userId, file, status) ==
  [op |-> op, userId |-> userId, file |-> file, status |-> status]

\* ------------------------------------------------------------------------
\* UltraFastUserManager (pdfController.js) and ImageProcessingManager
\* (imageController.js): the same class in both files.  The state of a
\* controller module is a record g; the manager's part of it is g.queues
\* (userProcessingQueues) and g.global (globalActiveCount).
\* ------------------------------------------------------------------------
canUserStartProcessing(g, userId) ==
  /\ g.queues[userId] < maxConcurrentPerUser
  /\ g.global < maxGlobalConcurrent

\* startUserProcessing that counts the tenant only
startUserProcessingTenantOnly(g, userId) ==
  [g EXCEPT !.queues[userId] = @ + 1]

startUserProcessing(g, userId) ==
  [g EXCEPT !.queues[userId] = @ + 1, !.global = @ + 1]

\* endUserProcessing without its activeCount > 0 test
endUserProcessingUnfloored(g, userId) ==
  [g EXCEPT !.queues[userId] = @ - 1, !.global = @ - 1]

endUserProcessing(g, userId) ==
  IF g.queues[userId] > 0
    THEN [g EXCEPT !.queues[userId] = @ - 1, !.global = @ - 1]
    ELSE g

\* ------------------------------------------------------------------------
\* sessionStore
\* ------------------------------------------------------------------------
createSession(g, userId, sessionId) ==
  [g EXCEPT !.us[userId] = @ \cup {sessionId},
            !.sd[sessionId] = [userId |-> userId],
            !.createdAt[sessionId] = g.now,
            !.images[sessionId] = {}]

\* registerImage without the look-up of the session
registerImageUnchecked(g, sessionId, filename, userId) ==
  [g EXCEPT !.images[sessionId] = @ \cup {filename},
            !.io[filename] = userId]

registerImage(g, sessionId, filename, userId) ==
  IF g.sd[sessionId] # NoSession
    THEN [g EXCEPT !.images[sessionId] = @ \cup {filename},
                   !.io[filename] = userId]
    ELSE g

\* validateImageAccess with the owner compared to nothing: any registered
\* image is served
validateImageAccessAnyOwner(g, userId, filename) ==
  g.io[filename] # NoUser

validateImageAccess(g, userId, filename) ==
  g.io[filename] = userId

\* validateUserSession looking the session up in sessionData only: any
\* session that exists is accepted
validateUserSessionAnyOwner(g, userId, sessionId) ==
  sessionId \in Jobs /\ g.sd[sessionId] # NoSession

validateUserSession(g, userId, sessionId) ==
  sessionId \in g.us[userId]

removeSession(g, userId, sessionId) ==
  IF g.sd[sessionId] # NoSession /\ g.sd[sessionId].userId = userId
    THEN [g EXCEPT !.io = [f \in FileNames |->
                             IF f \in g.images[sessionId] THEN NoUser
                             ELSE g.io[f]],
                   !.us[userId] = @ \ {sessionId},
                   !.sd[sessionId] = NoSession,
                   !.createdAt[sessionId] = 0,
                   !.images[sessionId] = {}]
    ELSE g

\* the sessionIds of the list getUserSessions returns (and getActiveSessions
\* sends as activeSessions)
getUserSessions(g, userId) == g.us[userId]

RECURSIVE removeSessions(_, _)
removeSessions(g, S) ==
  IF S = {} THEN g
  ELSE LET s == CHOOSE x \in S : \A y \in S : x <= y
       IN removeSessions(removeSession(g, g.sd[s].userId, s), S \ {s})

\* cleanupOldSessions with >= in the comparison of the age
expiredSessionsInclusive(g) ==
  {s \in Jobs : g.sd[s] # NoSession /\ g.now - g.createdAt[s] >= maxAge}

\* the list cleanupOldSessions returns
expiredSessions(g) ==
  {s \in Jobs : g.sd[s] # NoSession /\ g.now - g.createdAt[s] > maxAge}

cleanupOldSessions(g) ==
  removeSessions(g, expiredSessions(g))

\* ------------------------------------------------------------------------
\* The state of a controller module and the closures of its requests
\* ------------------------------------------------------------------------
G == [pc |-> pc, kind |-> kind, owner |-> owner,
      shouldCancel |-> shouldCancel, isCleanedUp |-> isCleanedUp,
      queues |-> userProcessingQueues, global |-> globalActiveCount,
      aps |-> activeProcessingSessions,
      us |-> userSessions, sd |-> sessionData,
      createdAt |-> createdAt, stamp |-> stamp,
      images |-> images, io |-> imageOwnership,
      disk |-> disk, now |-> now,
      response |-> response]

Set(g) ==
  /\ pc' = g.pc
  /\ kind' = g.kind
  /\ owner' = g.owner
  /\ shouldCancel' = g.shouldCancel
  /\ isCleanedUp' = g.isCleanedUp
  /\ userProcessingQueues' = g.queues
  /\ globalActiveCount' = g.global
  /\ activeProcessingSessions' = g.aps
  /\ userSessions' = g.us
  /\ sessionData' = g.sd
  /\ createdAt' = g.createdAt
  /\ stamp' = g.stamp
  /\ images' = g.images
  /\ imageOwnership' = g.io
  /\ disk' = g.disk
  /\ response' = g.response

Live(j) ==
  /\ j \in Jobs
  /\ pc[j] \in {"validating", "converting", "analyzing"}

\* startUserProcessing ran for the request and its safeCleanup did not yet
HoldsSlot(j) ==
  pc[j] \in {"converting", "analyzing"} /\ ~isCleanedUp[j]

\* cleanupSession of pdfController.js, as safeCleanup calls it (keepImages is
\* true, so the images stay); sessionId is NoSid where the caller has no
\* entry of its own to delete
cleanupSession(g, sessionId, userId) ==
  LET g1 == IF sessionId = NoSid THEN g
            ELSE [g EXCEPT !.aps[sessionId] = NoEntry]
  IN endUserProcessing(g1, userId)

\* safeCleanup of request j: processPDF calls cleanupSession; processImage
\* and processBatchImages delete their entry and call endUserProcessing;
\* processSelectedImages only calls endUserProcessing (sessionId = NoSid)
safeCleanup(g, j, sessionId, userId) ==
  IF g.isCleanedUp[j] THEN g
  ELSE cleanupSession([g EXCEPT !.isCleanedUp[j] = TRUE], sessionId, userId)

\* the handler of request j returns; its closure variables are dead
returned(g, j) ==
  [g EXCEPT !.pc[j] = "done", !.kind[j] = "none", !.owner[j] = NoUser,
            !.shouldCancel[j] = FALSE]

\* the finally block of a handler, then its return
finally(g, j, sessionId, userId) ==
  returned(safeCleanup(g, j, sessionId, userId), j)

respond(g, op, userId, status) ==
  [g EXCEPT !.response = Response(op, userId, NoFile, status)]

\* the event loop takes the next event: the process is alive and the response
\* of the previous handler, written in the same synchronous run, is out
Ready == ~exited /\ response = NoResponse
NextFree(j) ==
  /\ pc[j] = "idle"
  /\ IF j = 1 THEN TRUE ELSE pc[j - 1] # "idle"

\* ------------------------------------------------------------------------
\* pdfController.processPDF
\* ------------------------------------------------------------------------
\* generateSessionId (lines 17-19): session_<userId>_<Date.now()>_<random>.
\* The timestamp part of the id of request j: that of the request before it
\* when both ids are made in the same millisecond, otherwise a new one
generateSessionId(g, j, sameMs) ==
  IF sameMs THEN g.stamp[j - 1] ELSE j

\* lines 99-132: the limit check, then the await of validatePDF
processPDFArrives(g, j, u, sameMs) ==
  IF ~canUserStartProcessing(g, u)
    THEN respond([g EXCEPT !.pc[j] = "rejected"], "processPDF", u, 429)
    ELSE [g EXCEPT !.pc[j] = "validating", !.kind[j] = "pdf",
                   !.owner[j] = u,
                   !.stamp[j] = generateSessionId(g, j, sameMs)]

ProcessPDF(j, u) ==
  /\ Ready /\ ctl = "pdf" /\ NextFree(j)
  /\ Set(processPDFArrives(G, j, u, FALSE))
  /\ UNCHANGED <<limVars, batchVars, ctl, otherHeld, exited, cleaning, now>>

\* lines 132-185: validatePDF settles.  On failure: 400, then the finally
\* block.  Otherwise the slot is taken, the session and the entry of
\* activeProcessingSessions are created, the close handlers are installed,
\* and (unless the request is already aborted) getPDFPageCount is awaited.
processPDFValidated(g, j, valid, aborted) ==
  LET u == g.owner[j] IN
  IF ~valid
    THEN finally(respond(g, "processPDF", u, 400), j, j, u)
    ELSE LET g1 == startUserProcessing(g, u)
             g2 == createSession(g1, u, j)
             g3 == [g2 EXCEPT !.aps[j] = [userId |-> u, cancelJob |-> j]]
         IN IF aborted THEN finally(g3, j, j, u)
            ELSE [g3 EXCEPT !.pc[j] = "converting"]

PdfValidated(j, valid, aborted) ==
  /\ Ready /\ pc[j] = "validating"
  /\ Set(processPDFValidated(G, j, valid, aborted))
  /\ UNCHANGED <<limVars, batchVars, ctl, otherHeld, exited, cleaning, now>>

\* lines 185-334: the page count and the conversion loop are over (all
\* batches converted, cancelled, or an exception): images_ready or res.end,
\* and in every case the finally block
processPDFConverted(g, j) ==
  finally(g, j, j, g.owner[j])

PdfConverted(j) ==
  /\ Ready /\ pc[j] = "converting"
  /\ Set(processPDFConverted(G, j))
  /\ UNCHANGED <<limVars, batchVars, ctl, otherHeld, exited, cleaning, now>>

\* ------------------------------------------------------------------------
\* pdfController.processSelectedImages (lines 337-715)
\* ------------------------------------------------------------------------
\* lines 337-503: everything up to the await of analyzeImagesUltraFast.
\* hasPages: selectedPageNumbers is non-empty; anyValid: at least one of the
\* selected page images could be loaded from disk.
processSelectedImagesArrives(g, j, u, sid, hasPages, anyValid) ==
  IF ~hasPages
    THEN finally(respond(g, "processSelectedImages", u, 400),
                 j, NoSid, u)
  ELSE IF sid = NoSid \/ ~validateUserSession(g, u, sid)
    THEN finally(respond(g, "processSelectedImages", u, 403),
                 j, NoSid, u)
  ELSE LET g1 == startUserProcessing(g, u)
           g2 == IF g1.aps[sid] # NoEntry
                   THEN [g1 EXCEPT !.aps[sid].cancelJob = j]
                   ELSE g1
       IN IF ~anyValid THEN finally(g2, j, NoSid, u)
          ELSE [g2 EXCEPT !.pc[j] = "analyzing", !.kind[j] = "selected",
                          !.owner[j] = u]

ProcessSelectedImages(j, u, sid, hasPages, anyValid) ==
  /\ Ready /\ ctl = "pdf" /\ NextFree(j)
  /\ Set(processSelectedImagesArrives(G, j, u, sid, hasPages, anyValid))
  /\ UNCHANGED <<limVars, batchVars, ctl, otherHeld, exited, cleaning, now>>

\* lines 503-715: analyzeImagesUltraFast settled; aggregation and the
\* complete event (or res.end when cancelled), then the finally block
processSelectedImagesAnalyzed(g, j) ==
  finally(g, j, NoSid, g.owner[j])

SelectedAnalyzed(j) ==
  /\ Ready /\ pc[j] = "analyzing" /\ kind[j] = "selected"
  /\ Set(processSelectedImagesAnalyzed(G, j))
  /\ UNCHANGED <<limVars, batchVars, ctl, otherHeld, exited, cleaning, now>>

\* ------------------------------------------------------------------------
\* imageController.processImage / processBatchImages
\* ------------------------------------------------------------------------
\* The synchronous part of either handler up to the await of the analysis.
\* valid: the body passes the image / prompt / model checks.
\* checksAbort: processImage tests req.aborted || res.destroyed before it
\* opens the stream, the batch handler does not.
imageJobArrives(g, op, k, checksAbort, j, u, valid, aborted) ==
  IF ~canUserStartProcessing(g, u)
    THEN respond([g EXCEPT !.pc[j] = "rejected"], op, u, 429)
  ELSE IF ~valid
    THEN finally(respond(g, op, u, 400), j, j, u)
  ELSE LET g1 == startUserProcessing(g, u)
           g2 == createSession(g1, u, j)
           g3 == [g2 EXCEPT !.aps[j] = [userId |-> u, cancelJob |-> j]]
       IN IF checksAbort /\ aborted THEN finally(g3, j, j, u)
          ELSE [g3 EXCEPT !.pc[j] = "analyzing", !.kind[j] = k,
                          !.owner[j] = u]

\* imageController.js lines 77-228
ProcessImage(j, u, valid, aborted) ==
  /\ Ready /\ ctl = "image" /\ NextFree(j)
  /\ valid => u \in Uploaders
  /\ Set(imageJobArrives(G, "processImage", "image", TRUE, j, u, valid,
                         aborted))
  /\ UNCHANGED <<limVars, batchVars, ctl, otherHeld, exited, cleaning, now>>

\* imageController.js lines 358-502
ProcessBatchImages(j, u, valid) ==
  /\ Ready /\ ctl = "image" /\ NextFree(j)
  /\ valid => u \in Uploaders
  /\ Set(imageJobArrives(G, "processBatchImages", "batch", FALSE, j, u,
                         valid, FALSE))
  /\ UNCHANGED <<limVars, batchVars, ctl, otherHeld, exited, cleaning, now>>

\* imageController.js lines 228-355 and 502-650: the analysis settled, the
\* result is reported (or res.end when cancelled), then the finally block
imageJobAnalyzed(g, j) ==
  finally(g, j, j, g.owner[j])

ImageAnalyzed(j) ==
  /\ Ready /\ pc[j] = "analyzing" /\ kind[j] \in {"image", "batch"}
  /\ Set(imageJobAnalyzed(G, j))
  /\ UNCHANGED <<limVars, batchVars, ctl, otherHeld, exited, cleaning, now>>

\* an admitted job of a tenant that is not followed step by step: the limit
\* check and startUserProcessing of processImage / processBatchImages ...
OtherJobStarts(u) ==
  /\ Ready /\ ctl = "image" /\ u \notin Uploaders
  /\ canUserStartProcessing(G, u)
  /\ Set(startUserProcessing(G, u))
  /\ otherHeld' = [otherHeld EXCEPT ![u] = @ + 1]
  /\ UNCHANGED <<limVars, batchVars, ctl, exited, cleaning, now>>

\* ... and the endUserProcessing of its safeCleanup
OtherJobEnds(u) ==
  /\ Ready /\ otherHeld[u] > 0
  /\ Set(endUserProcessing(G, u))
  /\ otherHeld' = [otherHeld EXCEPT ![u] = @ - 1]
  /\ UNCHANGED <<limVars, batchVars, ctl, exited, cleaning, now>>

\* ------------------------------------------------------------------------
\* Events that reach a running request from outside
\* ------------------------------------------------------------------------
\* req.on('close') / res.on('close'): installed once the slot is taken
clientClosed(g, j) ==
  safeCleanup([g EXCEPT !.shouldCancel[j] = TRUE], j,
              IF g.kind[j] = "selected" THEN NoSid ELSE j, g.owner[j])

ClientClose(j) ==
  /\ Ready
  /\ pc[j] \in {"converting", "analyzing"}
  /\ ~isCleanedUp[j]
  /\ Set(clientClosed(G, j))
  /\ UNCHANGED <<limVars, batchVars, ctl, otherHeld, exited, cleaning, now>>

\* cancelStatus with the comparison of the entry's userId left out
cancelStatusAnyCaller(g, userId, sessionId) ==
  IF sessionId = NoSid THEN 400
  ELSE IF g.aps[sessionId] = NoEntry THEN 404
  ELSE 200

\* the status cancelProcessing answers with
cancelStatus(g, userId, sessionId) ==
  IF sessionId = NoSid THEN 400
  ELSE IF g.aps[sessionId] = NoEntry THEN 404
  ELSE IF g.aps[sessionId].userId # userId THEN 403
  ELSE 200

\* cancelProcessing of either controller: session.cancel() sets the
\* shouldCancel of the request whose closure the entry holds
cancelProcessing(g, userId, sessionId) ==
  LET st == cancelStatus(g, userId, sessionId)
      g1 == respond(g, "cancelProcessing", userId, st)
  IN IF st = 200 /\ g.pc[g.aps[sessionId].cancelJob] # "done"
       THEN [g1 EXCEPT !.shouldCancel[g.aps[sessionId].cancelJob] = TRUE]
       ELSE g1

CancelProcessing(u, sid) ==
  /\ Ready
  /\ Set(cancelProcessing(G, u, sid))
  /\ UNCHANGED <<limVars, batchVars, ctl, otherHeld, exited, cleaning, now>>

\* the response has been written out
ResponseSent ==
  /\ response # NoResponse
  /\ response' = NoResponse
  /\ UNCHANGED <<limVars, batchVars, ctl, pc, kind, owner, shouldCancel, isCleanedUp,
                 userProcessingQueues, globalActiveCount,
                 activeProcessingSessions, otherHeld, exited, storeVars>>

\* ------------------------------------------------------------------------
\* The signal handlers
\* ------------------------------------------------------------------------
RECURSIVE shutdownRelease(_, _)
shutdownRelease(g, S) ==
  IF S = {} THEN g
  ELSE LET s == CHOOSE x \in S : \A y \in S : x <= y
       IN shutdownRelease(cleanupSession(g, s, g.aps[s].userId), S \ {s})

\* SIGTERM / SIGINT: every entry of activeProcessingSessions is released and
\* deleted, then process.exit is called
Shutdown ==
  /\ Ready
  /\ Set(shutdownRelease(G, {s \in Jobs :
                               activeProcessingSessions[s] # NoEntry}))
  /\ exited' = TRUE
  /\ UNCHANGED <<limVars, batchVars, ctl, otherHeld, cleaning, now>>

\* ------------------------------------------------------------------------
\* The governor specification
\* ------------------------------------------------------------------------
\* everything but the credentials the limiter was constructed for
InitModules ==
  /\ ctl \in {"pdf", "image"}
  /\ pc = [j \in Jobs |-> "idle"]
  /\ kind = [j \in Jobs |-> "none"]
  /\ owner = [j \in Jobs |-> NoUser]
  /\ shouldCancel = [j \in Jobs |-> FALSE]
  /\ isCleanedUp = [j \in Jobs |-> FALSE]
  /\ userProcessingQueues = [u \in Tenants |-> 0]
  /\ globalActiveCount = 0
  /\ activeProcessingSessions = [s \in Jobs |-> NoEntry]
  /\ otherHeld = [u \in Tenants |-> 0]
  /\ userSessions = [u \in Tenants |-> {}]
  /\ sessionData = [s \in Jobs |-> NoSession]
  /\ createdAt = [s \in Jobs |-> 0]
  /\ stamp = [j \in Jobs |-> 0]
  /\ images = [s \in Jobs |-> {}]
  /\ imageOwnership = [f \in FileNames |-> NoUser]
  /\ disk = {}
  /\ cleaning = [s \in Jobs |-> NoUser]
  /\ now = 0
  /\ bpc = "idle"
  /\ bkind = "none"
  /\ bCancel = FALSE
  /\ pageCount = 0
  /\ convPage = 0
  /\ convEnd = 0
  /\ selected = <<>>
  /\ ist = <<>>
  /\ attempt = <<>>
  /\ outcome = <<>>
  /\ results = <<>>
  /\ completedCount = 0
  /\ rejected = FALSE
  /\ progressLog = <<>>
  /\ allPagesData = <<>>
  /\ events = <<>>
  /\ limNow = 0
  /\ sleepers = {}
  /\ calls = 0
  /\ entered = FALSE
  /\ retryPc = "idle"
  /\ retryKeys = <<>>
  /\ raised = <<>>
  /\ retryResult = NoOutcome
  /\ passes = <<>>
  /\ delays = <<>>
  /\ conversion = [pc |-> "idle", retryCount |-> 0, waits |-> <<>>]
  /\ stamping = NoStamping
  /\ requestQueue = NewRequestQueue
  /\ exited = FALSE
  /\ response = NoResponse

Init ==
  /\ InitModules
  /\ keyUsage = [k \in Keys |-> NoKeyData]

Next ==
  \/ \E j \in Jobs, u \in Tenants : ProcessPDF(j, u)
  \/ \E j \in Jobs, valid \in BOOLEAN, aborted \in BOOLEAN :
       (valid => owner[j] \in Uploaders) /\ PdfValidated(j, valid, aborted)
  \/ \E j \in Jobs : PdfConverted(j)
  \/ \E j \in Jobs, u \in Tenants, sid \in Jobs \cup {NoSid},
        hasPages \in BOOLEAN, anyValid \in BOOLEAN :
       ProcessSelectedImages(j, u, sid, hasPages, anyValid)
  \/ \E j \in Jobs : SelectedAnalyzed(j)
  \/ \E j \in Jobs, u \in Tenants, valid \in BOOLEAN, aborted \in BOOLEAN :
       ProcessImage(j, u, valid, aborted)
  \/ \E j \in Jobs, u \in Tenants, valid \in BOOLEAN :
       ProcessBatchImages(j, u, valid)
  \/ \E j \in Jobs : ImageAnalyzed(j)
  \/ \E u \in Tenants : OtherJobStarts(u)
  \/ \E u \in Tenants : OtherJobEnds(u)
  \/ \E j \in Jobs : ClientClose(j)
  \/ \E u \in Tenants, sid \in Jobs \cup {NoSid} : CancelProcessing(u, sid)
  \/ ResponseSent
  \/ Shutdown

Spec == Init /\ [][Next]_vars

TypeOK ==
  /\ pc \in [Jobs -> {"idle", "rejected", "validating", "converting",
                      "analyzing", "done"}]
  /\ globalActiveCount \in Nat
  /\ userProcessingQueues \in [Tenants -> Nat]

\* ------------------------------------------------------------------------
\* The session store under uploads, image requests, clean-up and expiry
\* ------------------------------------------------------------------------
\* pdfService.convertPDFPageToImage (lines 160-266), called from the
\* conversion loop of processPDF: page n of request j is written to
\* temp_images and registered under the session and the user of the request
pageConverted(g, j, n) ==
  registerImage([g EXCEPT !.disk = @ \cup {<<j, n>>}], j, <<j, n>>,
                g.owner[j])

ConvertPage(j, n) ==
  /\ Ready /\ pc[j] = "converting"
  /\ <<j, n>> \notin disk
  /\ Set(pageConverted(G, j, n))
  /\ UNCHANGED <<limVars, batchVars, ctl, otherHeld, exited, cleaning, now>>

\* router.get('/:filename') of the image route (RequestQueue.js 91-133)
imageRouteStatus(g, userId, filename) ==
  IF filename = BadName THEN 404
  ELSE IF ~validateImageAccess(g, userId, filename) THEN 403
  ELSE IF filename \notin g.disk THEN 404
  ELSE 200

GetImage(u, f) ==
  /\ Ready
  /\ Set([G EXCEPT !.response =
            Response("getImage", u, f, imageRouteStatus(G, u, f))])
  /\ UNCHANGED <<limVars, batchVars, ctl, otherHeld, exited, cleaning, now>>

\* pdfController.cleanupSessionImages (lines 747-778) up to the await of
\* readdir in pdfService.cleanupSessionImages (lines 352-365)
cleanupSessionImagesStatus(g, userId, sessionId) ==
  IF sessionId = NoSid THEN 400
  ELSE IF ~validateUserSession(g, userId, sessionId) THEN 403
  ELSE 200

CleanupSessionImages(u, sid) ==
  /\ Ready
  /\ IF cleanupSessionImagesStatus(G, u, sid) = 200
       THEN /\ cleaning[sid] = NoUser
            /\ cleaning' = [cleaning EXCEPT ![sid] = u]
            /\ UNCHANGED response
       ELSE /\ response' = Response("cleanupSessionImages", u, NoFile,
                                    cleanupSessionImagesStatus(G, u, sid))
            /\ UNCHANGED cleaning
  /\ UNCHANGED <<limVars, batchVars, ctl, pc, kind, owner, shouldCancel, isCleanedUp,
                 userProcessingQueues, globalActiveCount,
                 activeProcessingSessions, otherHeld, exited, userSessions,
                 sessionData, createdAt, stamp, images, imageOwnership,
                 disk, now>>

\* pdfService.cleanupSessionImages lines 365-392: the files whose name carries
\* the session's timestamp are unlinked and the session is removed; with no
\* such file the function returns before removeSession
unlinkSessionImages(g, userId, sessionId) ==
  LET found == {f \in g.disk : g.stamp[f[1]] = g.stamp[sessionId]}
  IN IF found = {} THEN g
     ELSE removeSession([g EXCEPT !.disk = @ \ found], userId, sessionId)

sessionImagesCleaned(g, userId, sessionId) ==
  respond(unlinkSessionImages(g, userId, sessionId), "cleanupSessionImages",
          userId, 200)

SessionImagesCleaned(sid) ==
  /\ Ready /\ cleaning[sid] # NoUser
  /\ Set(sessionImagesCleaned(G, cleaning[sid], sid))
  /\ cleaning' = [cleaning EXCEPT ![sid] = NoUser]
  /\ UNCHANGED <<limVars, batchVars, ctl, otherHeld, exited, now>>

\* the body of the loop of the setInterval callback for one expired
\* session: pdfService.cleanupSessionImages throws 'Access denied' when
\* validateUserSession fails, and the callback catches it; otherwise the
\* files are unlinked and endUserProcessing is called
cleanupExpired(g, userId, sessionId) ==
  IF ~validateUserSession(g, userId, sessionId) THEN g
  ELSE endUserProcessing(unlinkSessionImages(g, userId, sessionId), userId)

\* the loop over the list cleanupOldSessions returned: g0 is the state
\* before the call, from which the list took its userIds
RECURSIVE cleanupExpiredAll(_, _, _)
cleanupExpiredAll(g, g0, S) ==
  IF S = {} THEN g
  ELSE LET s == CHOOSE x \in S : \A y \in S : x <= y
       IN cleanupExpiredAll(cleanupExpired(g, g0.sd[s].userId, s), g0,
                            S \ {s})

\* the setInterval callback of pdfController.js (lines 808-822):
\* cleanupOldSessions removes the expired sessions, then the loop runs
sweep(g) ==
  cleanupExpiredAll(cleanupOldSessions(g), g, expiredSessions(g))

Sweep ==
  /\ Ready
  /\ expiredSessions(G) # {}
  /\ Set(sweep(G))
  /\ UNCHANGED <<limVars, batchVars, ctl, otherHeld, exited, cleaning, now>>

TimePasses ==
  /\ ~exited /\ now < MaxHours
  /\ now' = now + 1
  /\ UNCHANGED <<limVars, batchVars, govVars, userSessions, sessionData, createdAt, stamp, images,
                 imageOwnership, disk, cleaning>>

StoreJobs == 1..MaxSessions

NextStore ==
  \/ \E j \in StoreJobs, u \in Tenants : ProcessPDF(j, u)
  \/ \E j \in StoreJobs, valid \in BOOLEAN :
       PdfValidated(j, valid, FALSE)
  \/ \E j \in StoreJobs : PdfConverted(j)
  \/ \E j \in StoreJobs, n \in Pages : ConvertPage(j, n)
  \/ \E j \in StoreJobs, u \in Tenants, sid \in StoreJobs \cup {NoSid},
        hasPages \in BOOLEAN, anyValid \in BOOLEAN :
       ProcessSelectedImages(j, u, sid, hasPages, anyValid)
  \/ \E j \in StoreJobs : SelectedAnalyzed(j)
  \/ \E u \in Tenants, f \in (StoreJobs \X Pages) \cup {BadName} :
       GetImage(u, f)
  \/ \E u \in Tenants, sid \in StoreJobs \cup {NoSid} :
       CleanupSessionImages(u, sid)
  \/ \E sid \in StoreJobs : SessionImagesCleaned(sid)
  \/ Sweep
  \/ TimePasses
  \/ ResponseSent

SpecStore == Init /\ [][NextStore]_vars

\* ---- the life of a session record, over unbounded time ------------------
\* an hour passes; now stays where it is and the creation times move into
\* the past instead, no further than just beyond maxAge
TimePassesAged ==
  /\ ~exited
  /\ createdAt' = [s \in Jobs |->
                     IF sessionData[s] = NoSession THEN createdAt[s]
                     ELSE IF now - createdAt[s] > maxAge THEN createdAt[s]
                     ELSE createdAt[s] - 1]
  /\ UNCHANGED <<limVars, batchVars, govVars, userSessions, sessionData,
                 stamp, images, imageOwnership, disk, cleaning, now>>

\* the setInterval of pdfController.js line 808; imageController.js sets no
\* such timer and never calls cleanupOldSessions or removeSession
SweepOfPdfController ==
  ctl = "pdf" /\ Sweep

NextSessionLive ==
  \/ \E j \in StoreJobs, u \in Tenants : ProcessPDF(j, u)
  \/ \E j \in StoreJobs, valid \in BOOLEAN, aborted \in BOOLEAN :
       PdfValidated(j, valid, aborted)
  \/ \E j \in StoreJobs : PdfConverted(j)
  \/ \E j \in StoreJobs, u \in Tenants, valid \in BOOLEAN, aborted \in BOOLEAN :
       ProcessImage(j, u, valid, aborted)
  \/ \E j \in StoreJobs, u \in Tenants, valid \in BOOLEAN :
       ProcessBatchImages(j, u, valid)
  \/ \E j \in StoreJobs : ImageAnalyzed(j)
  \/ \E j \in StoreJobs : ClientClose(j)
  \/ SweepOfPdfController
  \/ TimePassesAged
  \/ ResponseSent

\* time passes, the interval timer fires, and responses are written out
SpecSessionLive ==
  /\ Init /\ [][NextSessionLive]_vars
  /\ WF_vars(TimePassesAged)
  /\ WF_vars(SweepOfPdfController)
  /\ WF_vars(ResponseSent)

\* ---- uploads of one millisecond, and the clean-up of their sessions ------
\* two processPDF requests, of u and of v, are handled one right after the
\* other within one millisecond: generateSessionId reads the same Date.now()
\* for both
ProcessPDFSameMs(j, u, v) ==
  /\ Ready /\ ctl = "pdf" /\ NextFree(j) /\ j + 1 \in StoreJobs
  /\ canUserStartProcessing(G, u)
  /\ Set(processPDFArrives(processPDFArrives(G, j, u, FALSE), j + 1, v, TRUE))
  /\ UNCHANGED <<limVars, batchVars, ctl, otherHeld, exited, cleaning, now>>

NextRevoke ==
  \/ \E j \in StoreJobs, u \in Tenants : ProcessPDF(j, u)
  \/ \E j \in StoreJobs, u \in Tenants, v \in Tenants :
       ProcessPDFSameMs(j, u, v)
  \/ \E j \in StoreJobs, valid \in BOOLEAN :
       PdfValidated(j, valid, FALSE)
  \/ \E j \in StoreJobs : PdfConverted(j)
  \/ \E j \in StoreJobs, n \in Pages : ConvertPage(j, n)
  \/ \E u \in Tenants, sid \in StoreJobs \cup {NoSid} :
       CleanupSessionImages(u, sid)
  \/ \E sid \in StoreJobs : SessionImagesCleaned(sid)
  \/ ResponseSent

SpecRevoke == Init /\ [][NextRevoke]_vars

\* ------------------------------------------------------------------------
\* The pipeline of one job: conversion loop, parallel analysis, aggregation
\* ------------------------------------------------------------------------
Min(a, b) == IF a < b THEN a ELSE b
Max(a, b) == IF a > b THEN a ELSE b

\* processPDF: OPTIMAL_BATCH_SIZE = min(5, max(2, ceil(pageCount / 20)))
OPTIMAL_BATCH_SIZE(n) == Min(5, Max(2, (n + 19) \div 20))

\* batchEnd of the batch that starts at page i
batchEnd(i, n) == Min(i + OPTIMAL_BATCH_SIZE(n) - 1, n)

\* processPDF from getPDFPageCount to the first convertPDFPageToImage of the
\* first batch (lines 185-229; pdfService.convertPDFBatchToImages 402-410)
ConversionStarts(n) ==
  /\ bpc = "idle"
  /\ bpc' = "converting" /\ bkind' = "pdf"
  /\ pageCount' = n /\ convPage' = 1 /\ convEnd' = batchEnd(1, n)
  /\ UNCHANGED <<limVars, govVars, storeVars, bCancel, selected, ist, attempt,
                 outcome, results, completedCount, rejected, progressLog,
                 allPagesData, events>>

\* convertPDFPageToImage of page convPage settled (converted or failed).
\* Inside a batch the next page is started without a look at shouldCancel;
\* after the last page of a batch the loop of processPDF goes on: the 100 ms
\* delay when pages are left and shouldCancel is unset, otherwise the loop
\* ends (break, or all pages done) and the stream is closed when cancelled
\* or images_ready is written
PageConverted ==
  /\ bpc = "converting"
  /\ IF convPage < convEnd
       THEN convPage' = convPage + 1 /\ bpc' = bpc
       ELSE /\ convPage' = convPage
            /\ bpc' = IF convEnd < pageCount /\ ~bCancel THEN "convDelay"
                      ELSE IF bCancel THEN "ended"
                      ELSE "images_ready"
  /\ UNCHANGED <<limVars, govVars, storeVars, bkind, bCancel, pageCount, convEnd,
                 selected, ist, attempt, outcome, results, completedCount,
                 rejected, progressLog, allPagesData, events>>

\* the delay between two batches is over: the loop head tests shouldCancel
\* and starts the first page of the next batch
ConvDelayEnds ==
  /\ bpc = "convDelay"
  /\ IF bCancel
       THEN bpc' = "ended" /\ UNCHANGED <<convPage, convEnd>>
       ELSE /\ bpc' = "converting"
            /\ convPage' = convEnd + 1
            /\ convEnd' = batchEnd(convEnd + 1, pageCount)
  /\ UNCHANGED <<limVars, govVars, storeVars, bkind, bCancel, pageCount, selected,
                 ist, attempt, outcome, results, completedCount, rejected,
                 progressLog, allPagesData, events>>

\* the cancel closure of the job is called, or its client goes away
BatchCancel ==
  /\ bpc \in {"converting", "convDelay", "analyzing"}
  /\ ~bCancel
  /\ bCancel' = TRUE
  /\ UNCHANGED <<limVars, govVars, storeVars, bpc, bkind, pageCount, convPage,
                 convEnd, selected, ist, attempt, outcome, results,
                 completedCount, rejected, progressLog, allPagesData, events>>

\* ---- analyzeImagesUltraFast ------------------------------------------
NoResult == [parsed |-> 0, error |-> "unset"]

Loaded(img) == img.success
\* processSelectedImages: validImages
validImages(sel) == SelectSeq(sel, Loaded)

\* the replies of generateContent: an array with items ("data"), the array
\* [] ("empty"), a text with no bracketed array in it, such as prose or an
\* array cut off before its first closing bracket ("noArray"), a text whose
\* bracketed part JSON.parse rejects ("parseError"); and its errors
Texts == {"data", "empty", "noArray", "parseError"}
Outcomes == Texts \cup {"retryable", "fatal"}

\* what analyzeSingleImageUltraFast returns for a response of the model:
\* parsed items (here their number) and the parse error, if any.  A text
\* with no array in it falls through both attempts to the last return.
parseGeminiResponse(out) ==
  IF out = "data" THEN [parsed |-> 1, error |-> "null"]
  ELSE IF out = "empty" THEN [parsed |-> 0, error |-> "null"]
  ELSE IF out = "noArray" THEN [parsed |-> 0, error |-> "null"]
  ELSE [parsed |-> 0, error |-> "Parse error"]

\* the variables of one analyzeImagesUltraFast call
A == [results |-> results, completedCount |-> completedCount,
      rejected |-> rejected, progressLog |-> progressLog]

\* a progress callback that writes whatever the flags say
onProgressIgnoringCancel(a, cancelled) ==
  [a EXCEPT !.progressLog = Append(@, a.completedCount)]

\* the progress callback of the controller: nothing is written once the job
\* is cancelled
onProgress(a, cancelled) ==
  IF cancelled THEN a
  ELSE [a EXCEPT !.progressLog = Append(@, a.completedCount)]

\* processImage, the try branch after retryUltraFast resolved
processImageSucceeded(a, index, r, cancelled) ==
  onProgress([a EXCEPT !.results[index] = r, !.completedCount = @ + 1],
             cancelled)

\* processImage whose catch branch counts nothing
processImageFailedUncounted(a, index, cancelled) ==
  onProgress([a EXCEPT !.results[index] =
                         [parsed |-> 0, error |-> "message"]],
             cancelled)

\* processImage with no catch branch: the error leaves the function
processImageFailedRethrown(a, index, cancelled) ==
  [a EXCEPT !.rejected = TRUE]

\* processImage whose catch branch also marks the first image failed
processImageFailedOverwriting(a, index, cancelled) ==
  onProgress([a EXCEPT !.results[index] =
                         [parsed |-> 0, error |-> "message"],
                       !.results[1] = [parsed |-> 0, error |-> "message"],
                       !.completedCount = @ + 1],
             cancelled)

\* processImage, the catch branch after retryUltraFast threw
processImageFailed(a, index, cancelled) ==
  onProgress([a EXCEPT !.results[index] =
                         [parsed |-> 0, error |-> "message"],
                       !.completedCount = @ + 1],
             cancelled)

\* ---- aggregation -------------------------------------------------------
\* validImages.findIndex(img => img.pageNumber === pageNumber)
findIndex(imgs, pageNumber) ==
  CHOOSE i \in 1..Len(imgs) :
    /\ imgs[i].pageNumber = pageNumber
    /\ \A k \in 1..(i - 1) : imgs[k].pageNumber # pageNumber

\* allPagesData.sort((a, b) => a.pageNumber - b.pageNumber): a stable sort
RECURSIVE insertByPage(_, _)
insertByPage(sorted, x) ==
  IF sorted = <<>> THEN <<x>>
  ELSE LET l == sorted[Len(sorted)]
       IN IF l.pageNumber <= x.pageNumber THEN Append(sorted, x)
          ELSE Append(insertByPage(SubSeq(sorted, 1, Len(sorted) - 1), x), l)

RECURSIVE sortByPage(_)
sortByPage(s) ==
  IF s = <<>> THEN <<>>
  ELSE insertByPage(sortByPage(SubSeq(s, 1, Len(s) - 1)), s[Len(s)])

\* processSelectedImages lines 535-655: one entry per selected page (its
\* page number, the number of items in its buckets, its error), an error
\* entry with empty buckets for a page whose image could not be loaded, then
\* the sort
aggregateSelected(sel, res) ==
  sortByPage([i \in 1..Len(sel) |->
    IF ~sel[i].success
      THEN [pageNumber |-> sel[i].pageNumber, items |-> 0,
            error |-> "Failed to load page"]
      ELSE LET r == res[findIndex(validImages(sel), sel[i].pageNumber)]
           IN [pageNumber |-> sel[i].pageNumber, items |-> r.parsed,
               error |-> r.error]])

\* processBatchImages lines 537-587: one entry per result, in the order of
\* the request; nothing sorts the list
aggregateBatch(sel, res) ==
  [i \in 1..Len(sel) |->
    [pageNumber |-> sel[i].pageNumber, items |-> res[i].parsed,
     error |-> res[i].error]]

aggregate(k, sel, res) ==
  IF k = "selected" THEN aggregateSelected(sel, res)
  ELSE aggregateBatch(sel, res)

\* ---- the events of the stream ------------------------------------------
\* an event written with res.write: its type and, where it carries one, its
\* pageNumber (progress of processSelectedImages, analysis_progress of
\* processBatchImages: "progress")
Event(type, pageNumber) == [type |-> type, pageNumber |-> pageNumber]

\* the page_complete events of the results loop: processSelectedImages
\* writes one per selected image, the images that could not be loaded
\* included, processBatchImages one per result
pageCompleteEvents(sel) ==
  [i \in 1..Len(sel) |-> Event("page_complete", sel[i].pageNumber)]

\* ---- the analysis of one request ---------------------------------------
PageNos == 1..MaxPages

\* the selectedImages of a processSelectedImages request (a page whose image
\* cannot be loaded has success false) or the images of a processBatchImages
\* request, page numbers as the client sent them (a page named twice is
\* loaded, or not, both times)
ImageInputs(k) ==
  {sel \in UNION {[1..m -> [pageNumber : PageNos,
                            success : IF k = "selected" THEN BOOLEAN
                                      ELSE {TRUE}]] :
                    m \in 1..MaxImages} :
     \A i, j \in DOMAIN sel :
       sel[i].pageNumber = sel[j].pageNumber
         => sel[i].success = sel[j].success}

\* processSelectedImages lines 414-503 / processBatchImages lines 428-502 and
\* analyzeImagesUltraFast up to Promise.all: every image of the request is
\* started (the requests modelled fit one batch of MAX_CONCURRENT); W are the
\* images whose waitIfNeeded has to wait, the others' model call is issued
\* at once.  With no valid image processSelectedImages ends the stream.
AnalysisStarts(k, sel, W) ==
  /\ bpc = "idle"
  /\ bkind' = k /\ selected' = sel
  /\ LET n == Len(validImages(sel))
     IN IF n = 0
          THEN /\ bpc' = "ended"
               /\ UNCHANGED <<ist, attempt, outcome, results>>
          ELSE /\ W \subseteq 1..n
               /\ bpc' = "analyzing"
               /\ ist' = [i \in 1..n |-> IF i \in W THEN "waiting"
                                         ELSE "calling"]
               /\ attempt' = [i \in 1..n |-> 0]
               /\ outcome' = [i \in 1..n |-> "none"]
               /\ results' = [i \in 1..n |-> NoResult]
  /\ events' = <<Event("status", 0)>>
  /\ UNCHANGED <<limVars, govVars, storeVars, bCancel, pageCount, convPage, convEnd,
                 completedCount, rejected, progressLog, allPagesData>>

\* the timer of waitIfNeeded fired and the call passed the limiter:
\* analyzeSingleImageUltraFast issues generateContent
LimiterWaitEnds(i) ==
  /\ bpc = "analyzing" /\ i \in DOMAIN ist /\ ist[i] = "waiting"
  /\ ist' = [ist EXCEPT ![i] = "calling"]
  /\ UNCHANGED <<limVars, govVars, storeVars, bpc, bkind, bCancel, pageCount,
                 convPage, convEnd, selected, attempt, outcome, results,
                 completedCount, rejected, progressLog, allPagesData, events>>

\* generateContent of image i settled with out.  retryUltraFast retries a
\* retryable error while attempts are left; otherwise processImage stores the
\* result, counts and reports progress.  When that was the last image,
\* Promise.all resolves and the handler goes on in the same run of the event
\* loop: res.end when cancelled, else aggregation and the complete event.
CallReturns(i, out) ==
  /\ bpc = "analyzing" /\ i \in DOMAIN ist /\ ist[i] = "calling"
  /\ outcome' = [outcome EXCEPT ![i] = out]
  /\ LET retry == out = "retryable" /\ attempt[i] < maxRetries - 1
         failed == out \in {"retryable", "fatal"} /\ ~retry
         a1 == IF retry THEN A
               ELSE IF failed THEN processImageFailed(A, i, bCancel)
               ELSE processImageSucceeded(A, i, parseGeminiResponse(out),
                                          bCancel)
         ist1 == [ist EXCEPT ![i] = IF retry THEN "backoff" ELSE "done"]
     IN /\ ist' = ist1
        /\ attempt' = IF retry THEN [attempt EXCEPT ![i] = @ + 1]
                      ELSE attempt
        /\ results' = a1.results
        /\ completedCount' = a1.completedCount
        /\ rejected' = a1.rejected
        /\ progressLog' = a1.progressLog
        /\ IF a1.rejected
             THEN bpc' = "failed" /\ UNCHANGED allPagesData
             ELSE IF \A k \in DOMAIN ist1 : ist1[k] = "done"
               THEN IF bCancel
                      THEN bpc' = "ended" /\ UNCHANGED allPagesData
                      ELSE /\ bpc' = "complete"
                           /\ allPagesData' =
                                aggregate(bkind, selected, a1.results)
               ELSE UNCHANGED <<bpc, allPagesData>>
        /\ events' =
             events
               \o (IF Len(a1.progressLog) > Len(progressLog)
                     THEN <<Event("progress", validImages(selected)[i].pageNumber)>>
                     ELSE <<>>)
               \o (IF ~a1.rejected /\ ~bCancel
                        /\ \A k \in DOMAIN ist1 : ist1[k] = "done"
                     THEN pageCompleteEvents(selected)
                            \o <<Event("complete", 0)>>
                     ELSE <<>>)
  /\ UNCHANGED <<limVars, govVars, storeVars, bkind, bCancel, pageCount, convPage,
                 convEnd, selected>>

\* the delay of retryUltraFast is over: the next attempt enters waitIfNeeded
\* (wait: it has to wait there) and then issues generateContent
BackoffEnds(i, wait) ==
  /\ bpc = "analyzing" /\ i \in DOMAIN ist /\ ist[i] = "backoff"
  /\ ist' = [ist EXCEPT ![i] = IF wait THEN "waiting" ELSE "calling"]
  /\ UNCHANGED <<limVars, govVars, storeVars, bpc, bkind, bCancel, pageCount,
                 convPage, convEnd, selected, attempt, outcome, results,
                 completedCount, rejected, progressLog, allPagesData, events>>

NextBatch ==
  \/ \E n \in 1..MaxPdfPages : ConversionStarts(n)
  \/ PageConverted
  \/ ConvDelayEnds
  \/ BatchCancel
  \/ \E k \in {"selected", "batch"} : \E sel \in ImageInputs(k) :
       \E W \in SUBSET (1..MaxImages) : AnalysisStarts(k, sel, W)
  \/ \E i \in 1..MaxImages : LimiterWaitEnds(i)
  \/ \E i \in 1..MaxImages :
       \E out \in Outcomes :
         CallReturns(i, out)
  \/ \E i \in 1..MaxImages, wait \in BOOLEAN : BackoffEnds(i, wait)

SpecBatch == Init /\ [][NextBatch]_vars

\* ------------------------------------------------------------------------
\* The rate limiter (UltraFastRateLimiter)
\* ------------------------------------------------------------------------
\* waitIfNeeded up to its first await, called at time t: the lists pruned in
\* place, and either the wait of the timer it arms (it calls itself again
\* when the timer fires) or, wait = 0, the request recorded in both lists
waitIfNeededNoBurstCheck(ku, keyIndex, t) ==
  LET old == ku[keyIndex]
      keyData == [requests |->
                    SelectSeq(old.requests, LAMBDA time : t - time < minuteWindow),
                  burstRequests |->
                    SelectSeq(old.burstRequests, LAMBDA time : t - time < burstWindow)]
      waitTime == minuteWindow - (t - keyData.requests[1]) + rateBuffer
  IN IF Len(keyData.requests) >= maxRequestsPerMinute /\ waitTime > 0
       THEN [keyUsage |-> [ku EXCEPT ![keyIndex] = keyData], wait |-> waitTime]
     ELSE [keyUsage |-> [ku EXCEPT ![keyIndex] =
                           [requests |-> Append(keyData.requests, t),
                            burstRequests |-> Append(keyData.burstRequests, t)]],
           wait |-> 0]

waitIfNeeded(ku, keyIndex, t) ==
  LET old == ku[keyIndex]
      keyData == [requests |->
                    SelectSeq(old.requests, LAMBDA time : t - time < minuteWindow),
                  burstRequests |->
                    SelectSeq(old.burstRequests, LAMBDA time : t - time < burstWindow)]
      burstWaitTime == burstWindow - (t - keyData.burstRequests[1]) + burstBuffer
      waitTime == minuteWindow - (t - keyData.requests[1]) + rateBuffer
  IN IF Len(keyData.burstRequests) >= burstLimit /\ burstWaitTime > 0
       THEN [keyUsage |-> [ku EXCEPT ![keyIndex] = keyData], wait |-> burstWaitTime]
     ELSE IF Len(keyData.requests) >= maxRequestsPerMinute /\ waitTime > 0
       THEN [keyUsage |-> [ku EXCEPT ![keyIndex] = keyData], wait |-> waitTime]
     ELSE [keyUsage |-> [ku EXCEPT ![keyIndex] =
                           [requests |-> Append(keyData.requests, t),
                            burstRequests |-> Append(keyData.burstRequests, t)]],
           wait |-> 0]

\* setTimeout(resolve, wait) of one more caller of keyIndex, due at time w;
\* callers with the same credential and the same due time are counted
setTimeout(S, keyIndex, w) ==
  IF \E s \in S : s.keyIndex = keyIndex /\ s.wake = w
    THEN {IF s.keyIndex = keyIndex /\ s.wake = w THEN [s EXCEPT !.n = @ + 1] ELSE s :
            s \in S}
    ELSE S \cup {[keyIndex |-> keyIndex, wake |-> w, n |-> 1]}

L == [keyUsage |-> keyUsage, sleepers |-> sleepers, limNow |-> limNow]

\* n callers run waitIfNeeded(keyIndex) one after the other at the same
\* Date.now(): each either records its request or arms its timer
RECURSIVE callers(_, _, _)
callers(l, keyIndex, n) ==
  IF n = 0 THEN l
  ELSE LET r == waitIfNeeded(l.keyUsage, keyIndex, l.limNow)
       IN callers([l EXCEPT !.keyUsage = r.keyUsage,
                            !.sleepers = IF r.wait = 0 THEN @
                                         ELSE setTimeout(@, keyIndex, l.limNow + r.wait)],
                  keyIndex, n - 1)

\* the sizes of the groups of callers followed: a single analyzeSingleImageUltraFast
\* call, and a batch that overruns the burst limit by one
GroupSizes == {1, burstLimit + 1}

\* a batch of n images reaches waitIfNeeded(keyIndex) in one synchronous run
\* (processImage -> retryUltraFast -> analyzeSingleImageUltraFast); one such
\* group is followed per instant of the clock
CallersEnter(keyIndex, n) ==
  /\ calls + n <= MaxCalls
  /\ ~entered
  /\ LET l == callers(L, keyIndex, n)
     IN keyUsage' = l.keyUsage /\ sleepers' = l.sleepers
  /\ calls' = calls + n
  /\ entered' = TRUE
  /\ UNCHANGED <<retryVars, govVars, storeVars, batchVars, limNow>>

\* the timers of keyIndex that are due, and the one that is due first
dueTimers(keyIndex) ==
  {s \in sleepers : s.keyIndex = keyIndex /\ s.wake <= limNow}
firstTimer(S) == CHOOSE s \in S : \A o \in S : s.wake <= o.wake

\* the timers of keyIndex that are due first fire: their callers run
\* waitIfNeeded again
TimerFires(keyIndex) ==
  /\ dueTimers(keyIndex) # {}
  /\ LET s == firstTimer(dueTimers(keyIndex))
         l == callers([L EXCEPT !.sleepers = @ \ {s}], s.keyIndex, s.n)
     IN keyUsage' = l.keyUsage /\ sleepers' = l.sleepers
  /\ UNCHANGED <<retryVars, govVars, storeVars, batchVars, limNow, calls, entered>>

\* the clock moves on, to the due time of the next timer or by a burst
\* window (the timers passed over then fire late); timers that are due fire
\* before it moves
ClockAdvances(toTimer) ==
  /\ \A s \in sleepers : s.wake > limNow
  /\ toTimer => sleepers # {}
  /\ LET t == IF toTimer THEN firstTimer(sleepers).wake ELSE limNow + burstWindow
     IN t <= MaxTime /\ limNow' = t
  /\ entered' = FALSE
  /\ UNCHANGED <<retryVars, govVars, storeVars, batchVars, keyUsage, sleepers, calls>>

NextLimiter ==
  \/ \E keyIndex \in Keys, n \in GroupSizes : CallersEnter(keyIndex, n)
  \/ \E keyIndex \in Keys : TimerFires(keyIndex)
  \/ \E toTimer \in BOOLEAN : ClockAdvances(toTimer)

SpecLimiter == Init /\ [][NextLimiter]_vars

\* ---- a pool of credentials with a burst limit of one --------------------
\* the limiter constructed with other limits: two credentials, one request
\* per burst window, 60 per minute
Pool == [keys |-> {0, 1}, burstLimit |-> 1, maxRequestsPerMinute |-> 60]

\* waitIfNeeded of a limiter whose fields are those of limits
waitIfNeededAt(limits, ku, keyIndex, t) ==
  LET old == ku[keyIndex]
      keyData == [requests |->
                    SelectSeq(old.requests, LAMBDA time : t - time < minuteWindow),
                  burstRequests |->
                    SelectSeq(old.burstRequests, LAMBDA time : t - time < burstWindow)]
      burstWaitTime == burstWindow - (t - keyData.burstRequests[1]) + burstBuffer
      waitTime == minuteWindow - (t - keyData.requests[1]) + rateBuffer
  IN IF Len(keyData.burstRequests) >= limits.burstLimit /\ burstWaitTime > 0
       THEN [keyUsage |-> [ku EXCEPT ![keyIndex] = keyData], wait |-> burstWaitTime]
     ELSE IF Len(keyData.requests) >= limits.maxRequestsPerMinute /\ waitTime > 0
       THEN [keyUsage |-> [ku EXCEPT ![keyIndex] = keyData], wait |-> waitTime]
     ELSE [keyUsage |-> [ku EXCEPT ![keyIndex] =
                           [requests |-> Append(keyData.requests, t),
                            burstRequests |-> Append(keyData.burstRequests, t)]],
           wait |-> 0]

\* the load getBestAvailableKey computes for credential i
load(ku, i, t) ==
  Len(SelectSeq(ku[i].requests, LAMBDA time : t - time < minuteWindow))
    + Len(SelectSeq(ku[i].burstRequests, LAMBDA time : t - time < burstWindow)) * 2

\* getBestAvailableKey that never looks at the load
getBestAvailableKeyUnbalanced(ku, keys, t) ==
  CHOOSE i \in keys : \A o \in keys : i <= o

\* the for loop of getBestAvailableKey from index i on; minRequests is
\* Infinity while infinite holds
RECURSIVE bestKeyLoop(_, _, _, _, _)
bestKeyLoop(ku, n, t, i, best) ==
  IF ~(i < n) THEN best.bestKey
  ELSE IF best.infinite \/ load(ku, i, t) < best.minRequests
    THEN bestKeyLoop(ku, n, t, i + 1,
           [bestKey |-> i, minRequests |-> load(ku, i, t), infinite |-> FALSE])
  ELSE bestKeyLoop(ku, n, t, i + 1, best)

\* the loop with <= for <: the last credential of least load
getBestAvailableKeyLastOnTie(ku, keys, t) ==
  CHOOSE i \in keys :
    /\ \A o \in keys : load(ku, i, t) <= load(ku, o, t)
    /\ \A o \in keys : o > i => load(ku, o, t) > load(ku, i, t)

\* getBestAvailableKey over the credentials 0 .. API_KEYS.length - 1
getBestAvailableKey(ku, keys, t) ==
  bestKeyLoop(ku, Cardinality(keys), t, 0,
              [bestKey |-> 0, minRequests |-> 0, infinite |-> TRUE])

\* one run of waitIfNeededAt(Pool, keyIndex) at the present instant
poolCaller(l, keyIndex) ==
  LET r == waitIfNeededAt(Pool, l.keyUsage, keyIndex, l.limNow)
  IN [l EXCEPT !.keyUsage = r.keyUsage,
               !.sleepers = IF r.wait = 0 THEN @
                            ELSE setTimeout(@, keyIndex, l.limNow + r.wait)]

RECURSIVE poolCallers(_, _, _)
poolCallers(l, keyIndex, n) ==
  IF n = 0 THEN l ELSE poolCallers(poolCaller(l, keyIndex), keyIndex, n - 1)

\* analyzeSingleImageUltraFast is called: the credential is chosen and
\* waitIfNeeded runs up to its record or its timer
PoolCallIssued ==
  /\ calls < MaxPoolCalls
  /\ LET l == poolCaller(L, getBestAvailableKey(keyUsage, Pool.keys, limNow))
     IN keyUsage' = l.keyUsage /\ sleepers' = l.sleepers
  /\ calls' = calls + 1
  /\ UNCHANGED <<retryVars, govVars, storeVars, batchVars, limNow, entered>>

\* the timers of keyIndex that are due first fire
PoolTimerFires(keyIndex) ==
  /\ dueTimers(keyIndex) # {}
  /\ LET s == firstTimer(dueTimers(keyIndex))
         l == poolCallers([L EXCEPT !.sleepers = @ \ {s}], s.keyIndex, s.n)
     IN keyUsage' = l.keyUsage /\ sleepers' = l.sleepers
  /\ UNCHANGED <<retryVars, govVars, storeVars, batchVars, limNow, calls, entered>>

\* the state after construction, the limiter holding the credentials of Pool
InitPool ==
  /\ InitModules
  /\ keyUsage = [k \in Pool.keys |-> NoKeyData]

NextPool ==
  \/ PoolCallIssued
  \/ \E keyIndex \in Pool.keys : PoolTimerFires(keyIndex)
  \/ \E toTimer \in BOOLEAN : ClockAdvances(toTimer)

SpecPool == InitPool /\ [][NextPool]_vars

\* ------------------------------------------------------------------------
\* retryUltraFast around analyzeSingleImageUltraFast, two credentials
\* ------------------------------------------------------------------------
\* Strings are sequences of characters, so that includes is a search.
MaxOtherCalls == 3

\* what fn can raise: what the failure signals, and the message of the
\* Error.  Throttled, OverQuota and Unauthorized are error responses of
\* model.generateContent, whose message quotes the request ("... from
\* <url>:generateContent: [<status>] ..."); Offline is the fetch that never
\* got a response; Malformed is imageBase64.replace on a missing image.
Throttled ==
  [signals |-> "throttling",
   message |->
     <<"g", "e", "n", "e", "r", "a", "t", "e", "C", "o", "n", "t", "e",
       "n", "t", ":", " ", "[", "4", "2", "9", "]">>]
OverQuota ==
  [signals |-> "quota",
   message |->
     <<"g", "e", "n", "e", "r", "a", "t", "e", "C", "o", "n", "t", "e",
       "n", "t", ":", " ", "q", "u", "o", "t", "a">>]
Offline ==
  [signals |-> "network",
   message |->
     <<"f", "e", "t", "c", "h", " ", "f", "a", "i", "l", "e", "d">>]
Unauthorized ==
  [signals |-> "authorization",
   message |->
     <<"g", "e", "n", "e", "r", "a", "t", "e", "C", "o", "n", "t", "e",
       "n", "t", ":", " ", "[", "4", "0", "3", "]">>]
Malformed ==
  [signals |-> "malformed input",
   message |->
     <<"C", "a", "n", "n", "o", "t", " ", "r", "e", "a", "d", " ", "p",
       "r", "o", "p", "e", "r", "t", "i", "e", "s">>]
ErrorsOfFn == {Throttled, OverQuota, Offline, Unauthorized, Malformed}

\* String.prototype.includes
includes(message, pattern) ==
  \E i \in 1..(Len(message) - Len(pattern) + 1) :
    SubSeq(message, i, i + Len(pattern) - 1) = pattern

\* const delay = 200 + (attempt * 300)
retryDelay(thisAttempt) == 200 + (thisAttempt * 300)

\* isRetryable of the catch block
isRetryable(error) ==
  \/ includes(error.message, <<"4", "2", "9">>)
  \/ includes(error.message, <<"q", "u", "o", "t", "a">>)
  \/ includes(error.message, <<"r", "a", "t", "e">>)
  \/ includes(error.message, <<"f", "e", "t", "c", "h">>)
  \/ includes(error.message, <<"n", "e", "t", "w", "o", "r", "k">>)

\* analyzeSingleImageUltraFast(..., keyIndex) up to its call of the model:
\* waitIfNeeded records the request on keyIndex (no wait is due while the
\* credentials carry this few requests)
requestRecorded(ku, keyIndex, t) == waitIfNeeded(ku, keyIndex, t).keyUsage

\* one pass of the for loop up to the await of fn: the credential is chosen
\* and fn(keyIndex) is called
tryWithBestKey ==
  LET keyIndex == getBestAvailableKey(keyUsage, Pool.keys, limNow)
  IN /\ waitIfNeeded(keyUsage, keyIndex, limNow).wait = 0
     /\ keyUsage' = requestRecorded(keyUsage, keyIndex, limNow)
     /\ retryKeys' = Append(retryKeys, keyIndex)
     /\ retryPc' = "calling"

\* retryUltraFast is called: attempt = 0
RetryUltraFast ==
  /\ retryPc = "idle"
  /\ tryWithBestKey
  /\ UNCHANGED <<govVars, storeVars, batchVars, limNow, sleepers, calls,
                 entered, raised, retryResult, passes, backoffVars, otherVars>>

\* fn returns: retryUltraFast returns its result
FnReturns ==
  /\ retryPc = "calling"
  /\ retryPc' = "returned"
  /\ retryResult' = FnResult
  /\ UNCHANGED <<govVars, storeVars, batchVars, limNow, keyUsage, sleepers,
                 calls, entered, retryKeys, raised, passes, backoffVars, otherVars>>

\* fn raises error at pass thisAttempt: the catch block, up to the await of the
\* delay or to throw lastError
FnRaises(error) ==
  /\ retryPc = "calling"
  /\ LET thisAttempt == Len(raised)
     IN IF isRetryable(error) /\ thisAttempt < maxRetries - 1
          THEN /\ retryPc' = "delay"
               /\ delays' = Append(delays, retryDelay(thisAttempt))
               /\ UNCHANGED retryResult
        ELSE /\ retryPc' = "thrown" /\ retryResult' = error
             /\ UNCHANGED delays
  /\ raised' = Append(raised, error)
  /\ UNCHANGED <<govVars, storeVars, batchVars, limNow, keyUsage, sleepers,
                 calls, entered, retryKeys, passes, conversion, otherVars>>

\* the delay of the retry ends: continue, the next pass of the loop (the
\* delay, 200 ms, is short of every window: no record has left one)
DelayEnds ==
  /\ retryPc = "delay"
  /\ tryWithBestKey
  /\ UNCHANGED <<govVars, storeVars, batchVars, limNow, sleepers, calls,
                 entered, raised, retryResult, passes, backoffVars, otherVars>>

\* the call of another page, in its own retryUltraFast, is issued
OtherCallIssued ==
  /\ calls < MaxOtherCalls
  /\ LET keyIndex == getBestAvailableKey(keyUsage, Pool.keys, limNow)
     IN /\ waitIfNeeded(keyUsage, keyIndex, limNow).wait = 0
        /\ keyUsage' = requestRecorded(keyUsage, keyIndex, limNow)
  /\ calls' = calls + 1
  /\ UNCHANGED <<govVars, storeVars, batchVars, limNow, sleepers, entered,
                 retryVars>>

\* ---- convertPDFPageToImage and its retries ------------------------------
\* pdfService.js line 161
conversionMaxRetries == 2

\* a wait of one second whatever the attempt
waitTimeFlat(retryCount) == 1000

\* const waitTime = Math.min(1000 * Math.pow(2, retryCount), 5000)
waitTime(retryCount) == Min(1000 * 2^retryCount, 5000)

\* convertPDFPageToImage(pdfPath, pageNumber, sessionId, userId) is called
ConversionCalled ==
  /\ conversion.pc = "idle"
  /\ conversion' = [conversion EXCEPT !.pc = "converting"]
  /\ UNCHANGED <<govVars, storeVars, batchVars, limNow, keyUsage, sleepers,
                 calls, entered, retryPc, retryKeys, raised, retryResult,
                 passes, delays, otherVars>>

\* the page is converted and the image returned
ConversionDone ==
  /\ conversion.pc = "converting"
  /\ conversion' = [conversion EXCEPT !.pc = "converted"]
  /\ UNCHANGED <<govVars, storeVars, batchVars, limNow, keyUsage, sleepers,
                 calls, entered, retryPc, retryKeys, raised, retryResult,
                 passes, delays, otherVars>>

\* the conversion throws: the catch block, up to the await of the wait or
\* to the return of the error object
ConversionThrows ==
  /\ conversion.pc = "converting"
  /\ conversion' =
       IF conversion.retryCount < conversionMaxRetries
         THEN [conversion EXCEPT
                 !.pc = "waiting",
                 !.waits = Append(@, waitTime(conversion.retryCount))]
       ELSE [conversion EXCEPT !.pc = "failed"]
  /\ UNCHANGED <<govVars, storeVars, batchVars, limNow, keyUsage, sleepers,
                 calls, entered, retryPc, retryKeys, raised, retryResult,
                 passes, delays, otherVars>>

\* the wait is over: the function calls itself with retryCount + 1
ConversionRetried ==
  /\ conversion.pc = "waiting"
  /\ conversion' = [conversion EXCEPT !.pc = "converting", !.retryCount = @ + 1]
  /\ UNCHANGED <<govVars, storeVars, batchVars, limNow, keyUsage, sleepers,
                 calls, entered, retryPc, retryKeys, raised, retryResult,
                 passes, delays, otherVars>>

NextRetry ==
  \/ RetryUltraFast
  \/ FnReturns
  \/ \E error \in ErrorsOfFn : FnRaises(error)
  \/ DelayEnds
  \/ OtherCallIssued
  \/ ConversionCalled
  \/ ConversionDone
  \/ ConversionThrows
  \/ ConversionRetried

SpecRetry == InitPool /\ [][NextRetry]_vars

\* ---- the limiter over unbounded time, callers arriving for ever --------
\* Date.now() only enters waitIfNeeded through differences, so here every
\* time is kept relative to the present instant: when d ms pass, the due
\* times of the timers and the recorded timestamps move d ms into the past
\* (a timestamp older than the minute window, which the next call prunes
\* whatever its age, is kept at that age)
rebase(l, d) ==
  LET past(seq) == [i \in DOMAIN seq |->
                      IF seq[i] - d < l.limNow - minuteWindow
                        THEN l.limNow - minuteWindow ELSE seq[i] - d]
  IN [l EXCEPT
        !.keyUsage = [k \in Keys |->
                        [requests |-> past(l.keyUsage[k].requests),
                         burstRequests |-> past(l.keyUsage[k].burstRequests)]],
        !.sleepers = {[s EXCEPT !.wake = @ - d] : s \in l.sleepers}]

\* the sizes of the groups of callers that keep arriving: a batch that
\* fills the burst window, and one that overruns it by one
ArrivalSizes == {burstLimit, burstLimit + 1}

\* n more callers run waitIfNeeded(keyIndex); one sleeping caller is
\* followed, so the arrivals considered while it sleeps are those that are
\* recorded at once
CallersKeepEntering(keyIndex, n) ==
  /\ LET l == callers(L, keyIndex, n)
     IN /\ \A s \in l.sleepers : s.n = 1
        /\ Cardinality(l.sleepers) <= 1
        /\ l.keyUsage # keyUsage
        /\ keyUsage' = l.keyUsage /\ sleepers' = l.sleepers
  /\ UNCHANGED <<retryVars, govVars, storeVars, batchVars, limNow, calls, entered>>

\* time passes, up to the due time of the next timer or by a burst window
ClockAdvancesRebased(toTimer) ==
  /\ \A s \in sleepers : s.wake > limNow
  /\ toTimer => sleepers # {}
  /\ LET d == IF toTimer THEN firstTimer(sleepers).wake - limNow
              ELSE burstWindow
         l == rebase(L, d)
     IN keyUsage' = l.keyUsage /\ sleepers' = l.sleepers
  /\ UNCHANGED <<retryVars, govVars, storeVars, batchVars, limNow, calls, entered>>

NextLimiterLive ==
  \/ \E keyIndex \in Keys, n \in ArrivalSizes : CallersKeepEntering(keyIndex, n)
  \/ \E keyIndex \in Keys : TimerFires(keyIndex)
  \/ \E toTimer \in BOOLEAN : ClockAdvancesRebased(toTimer)

\* timers that are due fire, and time passes
SpecLimiterLive ==
  /\ Init /\ [][NextLimiterLive]_vars
  /\ WF_vars(\E keyIndex \in Keys : TimerFires(keyIndex))
  /\ WF_vars(\E toTimer \in BOOLEAN : ClockAdvancesRebased(toTimer))

\* ---- one admitted job whose page goes through the limiter --------------
\* processSelectedImages / processBatchImages took their slot and called
\* analyzeImagesUltraFast with one image: its processImage reaches
\* waitIfNeeded(keyIndex), right behind ahead callers of other jobs.  The
\* slot is held until the finally block, that is until bpc is terminal.
JobPageEnters(keyIndex, ahead) ==
  /\ bpc = "idle"
  /\ LET l == callers(L, keyIndex, ahead + 1)
     IN /\ keyUsage' = l.keyUsage /\ sleepers' = l.sleepers
        /\ ist' = <<IF l.sleepers = {} THEN "calling" ELSE "waiting">>
  /\ bpc' = "analyzing"
  /\ UNCHANGED <<retryVars, govVars, storeVars, bkind, bCancel, pageCount, convPage,
                 convEnd, selected, attempt, outcome, results, completedCount,
                 rejected, progressLog, allPagesData, events, limNow, calls,
                 entered>>

\* n callers of other jobs run waitIfNeeded(keyIndex) while the job is
\* analyzing; the arrivals followed are those that are recorded at once
OtherCallersEnter(keyIndex, n) ==
  /\ bpc = "analyzing"
  /\ LET l == callers(L, keyIndex, n)
     IN /\ l.sleepers = sleepers
        /\ l.keyUsage # keyUsage
        /\ keyUsage' = l.keyUsage
  /\ UNCHANGED <<retryVars, govVars, storeVars, batchVars, limNow, sleepers, calls,
                 entered>>

\* the timer of the job's page fires: waitIfNeeded runs again and either
\* records the request, and generateContent is issued, or arms a new timer
JobTimerFires(keyIndex) ==
  /\ bpc = "analyzing"
  /\ dueTimers(keyIndex) # {}
  /\ LET s == firstTimer(dueTimers(keyIndex))
         l == callers([L EXCEPT !.sleepers = @ \ {s}], s.keyIndex, s.n)
     IN /\ keyUsage' = l.keyUsage /\ sleepers' = l.sleepers
        /\ ist' = <<IF l.sleepers = {} THEN "calling" ELSE "waiting">>
  /\ UNCHANGED <<retryVars, govVars, storeVars, bpc, bkind, bCancel, pageCount, convPage,
                 convEnd, selected, attempt, outcome, results, completedCount,
                 rejected, progressLog, allPagesData, events, limNow, calls,
                 entered>>

\* generateContent settles, with a reply or an error that is not retried:
\* processImage stores the result, Promise.all resolves, the handler writes
\* its last event or just ends the stream when cancelled, and its finally
\* block releases the slot
JobCallReturns ==
  /\ bpc = "analyzing" /\ ist = <<"calling">>
  /\ ist' = <<"done">>
  /\ bpc' = IF bCancel THEN "ended" ELSE "complete"
  /\ UNCHANGED <<govVars, storeVars, limVars, bkind, bCancel, pageCount,
                 convPage, convEnd, selected, attempt, outcome, results,
                 completedCount, rejected, progressLog, allPagesData, events>>

\* groups of other callers that reach the limiter just ahead of the job's
\* page: none, or as many as fill the burst window
AheadSizes == {0, burstLimit}

NextJobLive ==
  \/ \E keyIndex \in Keys, ahead \in AheadSizes : JobPageEnters(keyIndex, ahead)
  \/ \E keyIndex \in Keys, n \in ArrivalSizes : OtherCallersEnter(keyIndex, n)
  \/ \E keyIndex \in Keys : JobTimerFires(keyIndex)
  \/ JobCallReturns
  \/ BatchCancel
  \/ \E toTimer \in BOOLEAN : ClockAdvancesRebased(toTimer)

\* timers that are due fire, time passes, and every model call that was
\* issued returns
SpecJobLive ==
  /\ Init /\ [][NextJobLive]_vars
  /\ WF_vars(\E keyIndex \in Keys : JobTimerFires(keyIndex))
  /\ WF_vars(\E toTimer \in BOOLEAN : ClockAdvancesRebased(toTimer))
  /\ WF_vars(JobCallReturns)

\* ---- one caller of waitIfNeeded followed through its passes -------------
\* how a pass of waitIfNeeded(keyIndex) at time t ends: in the wait of the
\* burst limit, in the wait of the limit per minute, or with the request
\* recorded
passEnds(ku, keyIndex, t) ==
  LET old == ku[keyIndex]
      requests == SelectSeq(old.requests, LAMBDA time : t - time < minuteWindow)
      burstRequests ==
        SelectSeq(old.burstRequests, LAMBDA time : t - time < burstWindow)
  IN IF /\ Len(burstRequests) >= burstLimit
        /\ burstWindow - (t - burstRequests[1]) + burstBuffer > 0
       THEN "burst"
     ELSE IF /\ Len(requests) >= maxRequestsPerMinute
             /\ minuteWindow - (t - requests[1]) + rateBuffer > 0
       THEN "minute"
     ELSE "recorded"

\* whether the caller followed is suspended in waitIfNeeded
Suspended == passes # <<>> /\ passes[Len(passes)] # "recorded"

\* ahead + 1 calls of analyzeSingleImageUltraFast reach waitIfNeeded(keyIndex)
\* at one Date.now(); the caller followed is the last of them
FollowedCallerEnters(keyIndex, ahead) ==
  /\ passes = <<>>
  /\ calls + ahead + 1 <= MaxCalls
  /\ LET before == callers(L, keyIndex, ahead)
         l == callers(before, keyIndex, 1)
     IN /\ keyUsage' = l.keyUsage /\ sleepers' = l.sleepers
        /\ passes' = <<passEnds(before.keyUsage, keyIndex, limNow)>>
  /\ calls' = calls + ahead + 1
  /\ UNCHANGED <<govVars, storeVars, batchVars, limNow, entered, retryPc,
                 retryKeys, raised, retryResult, backoffVars, otherVars>>

\* n callers of a later batch run waitIfNeeded(keyIndex); the arrivals
\* followed are those that are recorded at once, so that the timers are
\* those of the first batch and the caller followed is the last of them
LaterCallersEnter(keyIndex, n) ==
  /\ passes # <<>>
  /\ calls + n <= MaxCalls
  /\ LET l == callers(L, keyIndex, n)
     IN /\ l.sleepers = sleepers
        /\ keyUsage' = l.keyUsage
  /\ calls' = calls + n
  /\ UNCHANGED <<govVars, storeVars, batchVars, limNow, sleepers, entered,
                 retryVars>>

\* the timers of the batch fire: its suspended callers run waitIfNeeded
\* again in the order in which they were suspended, the caller followed last
BatchTimersFire(keyIndex) ==
  /\ Suspended
  /\ dueTimers(keyIndex) # {}
  /\ LET s == firstTimer(dueTimers(keyIndex))
         before == callers([L EXCEPT !.sleepers = @ \ {s}], s.keyIndex, s.n - 1)
         l == callers(before, keyIndex, 1)
     IN /\ keyUsage' = l.keyUsage /\ sleepers' = l.sleepers
        /\ passes' = Append(passes, passEnds(before.keyUsage, keyIndex, limNow))
  /\ UNCHANGED <<govVars, storeVars, batchVars, limNow, calls, entered,
                 retryPc, retryKeys, raised, retryResult, backoffVars, otherVars>>

\* the callers that reach waitIfNeeded ahead of the caller followed: none,
\* a batch that fills the burst window, and one of twice that size
BatchSizes == {0, burstLimit, 2 * burstLimit}

NextRecheck ==
  \/ \E keyIndex \in Keys, ahead \in BatchSizes :
       FollowedCallerEnters(keyIndex, ahead)
  \/ \E keyIndex \in Keys, n \in ArrivalSizes : LaterCallersEnter(keyIndex, n)
  \/ \E keyIndex \in Keys : BatchTimersFire(keyIndex)
  \/ \E toTimer \in BOOLEAN : ClockAdvances(toTimer)

SpecRecheck == Init /\ [][NextRecheck]_vars

\* ---- the batches of analyzeImagesUltraFast -----------------------------
\* geminiService.js line 281: MAX_CONCURRENT = API_KEYS.length * 8
MAX_CONCURRENT == Cardinality(Keys) * PerKey

\* the images whose processImage was started and has not yet stored its
\* result
inFlight == {i \in DOMAIN ist : ist[i] = "calling"}

\* the index of the first image no batch has started yet
nextStart == CHOOSE i \in DOMAIN ist :
               ist[i] = "unstarted" /\ \A k \in 1..(i - 1) : ist[k] # "unstarted"

\* lines 335-344, one pass of the loop: the images from index from on, at
\* most MAX_CONCURRENT of them, are started (batch.map(processImage))
startBatch(st, from) ==
  [i \in DOMAIN st |->
     IF i >= from /\ i < from + MAX_CONCURRENT THEN "calling" ELSE st[i]]

\* after a batch that started at from: the 50 ms timer is awaited when
\* images are left, otherwise Promise.all
afterBatch(from, n) ==
  IF from + MAX_CONCURRENT <= n THEN "stagger" ELSE "awaitAll"

\* analyzeImagesUltraFast is called with n images: the first batch starts
BatchesStart(n) ==
  /\ bpc = "idle"
  /\ ist' = startBatch([i \in 1..n |-> "unstarted"], 1)
  /\ bpc' = afterBatch(1, n)
  /\ completedCount' = 0
  /\ UNCHANGED <<limVars, govVars, storeVars, bkind, bCancel, pageCount,
                 convPage, convEnd, selected, attempt, outcome, results,
                 rejected, progressLog, allPagesData, events>>

\* the 50 ms timer between two batch starts fires: the next batch starts,
\* whatever has become of the images of the batches before it
StaggerTimerFires ==
  /\ bpc = "stagger"
  /\ ist' = startBatch(ist, nextStart)
  /\ bpc' = afterBatch(nextStart, Len(ist))
  /\ UNCHANGED <<limVars, govVars, storeVars, bkind, bCancel, pageCount,
                 convPage, convEnd, selected, attempt, outcome, results,
                 completedCount, rejected, progressLog, allPagesData, events>>

\* processImage of image i stores its result and counts it; with the last
\* result Promise.all resolves
ImageSettles(i) ==
  /\ bpc \in {"stagger", "awaitAll"}
  /\ i \in inFlight
  /\ ist' = [ist EXCEPT ![i] = "done"]
  /\ completedCount' = completedCount + 1
  /\ bpc' = IF \A k \in DOMAIN ist : k # i => ist[k] = "done"
              THEN "complete" ELSE bpc
  /\ UNCHANGED <<limVars, govVars, storeVars, bkind, bCancel, pageCount,
                 convPage, convEnd, selected, attempt, outcome, results,
                 rejected, progressLog, allPagesData, events>>

NextStagger ==
  \/ \E n \in 1..MaxBatchImages : BatchesStart(n)
  \/ StaggerTimerFires
  \/ \E i \in 1..MaxBatchImages : ImageSettles(i)

SpecStagger == Init /\ [][NextStagger]_vars

\* ------------------------------------------------------------------------
\* Properties of the session store
\* ------------------------------------------------------------------------
\* C2: for tenants T1 # T2 and every image registered to a session of T1,
\* validateImageAccess(T2, image) is false and the image route answers T2
\* with 403, never with the file; validateImageAccess is true only where an
\* ownership record names the caller, so it is false for a name that has no
\* record
C2_NoCrossTenantAccess ==
  /\ \A s \in Jobs : \A f \in images[s] : \A T2 \in Tenants :
       (sessionData[s] # NoSession /\ T2 # sessionData[s].userId)
         => /\ ~validateImageAccess(G, T2, f)
            /\ imageRouteStatus(G, T2, f) = 403
  /\ \A u \in Tenants : \A f \in FileNames :
       /\ validateImageAccess(G, u, f) => imageOwnership[f] = u
       /\ imageOwnership[f] = NoUser => ~validateImageAccess(G, u, f)
  /\ (response.op = "getImage" /\ response.status = 200)
       => imageOwnership[response.file] = response.userId

\* tenant u2 has just asked for a registered image of a session of u1 that is
\* on disk, and was answered 403
C2_Witness ==
  /\ response.op = "getImage" /\ response.userId = "u2"
  /\ response.status = 403
  /\ response.file \in disk
  /\ \E s \in Jobs : /\ sessionData[s] = [userId |-> "u1"]
                     /\ response.file \in images[s]

\* ------------------------------------------------------------------------
\* The results loops: processPageData and the stamping of the items
\* ------------------------------------------------------------------------
\* An entry of the array the model replied with is {category, data}; data
\* is whatever the reply holds, a JSON object or a JSON string.
Replies ==
  {<<>>,
   <<[category |-> "labour", data |-> "object"]>>,
   <<[category |-> "labour", data |-> "text"]>>,
   <<[category |-> "other", data |-> "object"]>>,
   <<[category |-> "labour", data |-> "object"],
     [category |-> "other", data |-> "text"]>>,
   <<[category |-> "labour", data |-> "object"],
     [category |-> "labour", data |-> "object"]>>}

\* result.parsed of the page whose image carries pageNumber; from keeps the
\* page number of the image an entry was extracted from
NoStamp == [pageNumber |-> 0, sessionId |-> 0, userId |-> "-"]
parsedOf(reply, pageNumber) ==
  [k \in DOMAIN reply |->
     [category |-> reply[k].category, data |-> reply[k].data,
      from |-> pageNumber, stamp |-> NoStamp]]

\* calculationService.processPageData: the data of the entries of a known
\* category, in the order of the reply
processPageData(extractedData) ==
  SelectSeq(extractedData, LAMBDA item : item.category = "labour")

\* pdfController: pageResult.labour.map(item => ({ ...item, pageNumber,
\* userId, sessionId })), a new object whatever item is
stampOfSelected(item, pageNumber, userId, sessionId) ==
  [item EXCEPT !.data = "object",
               !.stamp = [pageNumber |-> pageNumber, sessionId |-> sessionId,
                          userId |-> userId]]

\* imageController: item.PAGE_NUMBER = pageNumber; item.SESSION_ID = ...;
\* item.USER_ID = ...: an assignment to a property of a string does nothing
stampOfBatch(item, pageNumber, userId, sessionId) ==
  IF item.data = "object"
    THEN [item EXCEPT !.stamp = [pageNumber |-> pageNumber,
                                 sessionId |-> sessionId, userId |-> userId]]
  ELSE item

\* one pass of the results loop: the items of page i are stamped and pushed
\* onto collectedResult
pageCollected(st, controller) ==
  LET page == st.pages[st.i]
      pageResult == processPageData(page.parsed)
      stamped == [k \in DOMAIN pageResult |->
                    IF controller = "pdf"
                      THEN stampOfSelected(pageResult[k], page.pageNumber,
                                           st.userId, st.sessionId)
                    ELSE stampOfBatch(pageResult[k], page.pageNumber,
                                      st.userId, st.sessionId)]
  IN [st EXCEPT !.collectedResult = @ \o stamped, !.i = @ + 1]

\* analyzeImagesUltraFast settled for the job sessionId of userId, with the
\* replies first and second for its pages
ResultsLoopStarts(sessionId, userId, pageNos, first, second) ==
  /\ stamping.pc = "idle"
  /\ Len(pageNos) = 1 => second = <<>>
  /\ stamping' =
       [NoStamping EXCEPT
          !.pc = "looping", !.sessionId = sessionId, !.userId = userId,
          !.pages = [k \in DOMAIN pageNos |->
                       [pageNumber |-> pageNos[k],
                        parsed |-> parsedOf(IF k = 1 THEN first ELSE second,
                                            pageNos[k])]]]
  /\ UNCHANGED <<govVars, storeVars, batchVars, limNow, keyUsage, sleepers,
                 calls, entered, retryPc, retryKeys, raised, retryResult,
                 passes, backoffVars, requestQueue>>

PageProcessed ==
  /\ stamping.pc = "looping"
  /\ stamping.i <= Len(stamping.pages)
  /\ stamping' = pageCollected(stamping, ctl)
  /\ UNCHANGED <<govVars, storeVars, batchVars, limNow, keyUsage, sleepers,
                 calls, entered, retryPc, retryKeys, raised, retryResult,
                 passes, backoffVars, requestQueue>>

\* the complete event is written with collectedResult
CompleteWritten ==
  /\ stamping.pc = "looping"
  /\ stamping.i > Len(stamping.pages)
  /\ stamping' = [stamping EXCEPT !.pc = "complete"]
  /\ UNCHANGED <<govVars, storeVars, batchVars, limNow, keyUsage, sleepers,
                 calls, entered, retryPc, retryKeys, raised, retryResult,
                 passes, backoffVars, requestQueue>>

PageOrders == {<<1>>, <<1, 2>>, <<2, 1>>}

NextStamp ==
  \/ \E sessionId \in Jobs, userId \in Tenants, pageNos \in PageOrders,
        first \in Replies, second \in Replies :
       ResultsLoopStarts(sessionId, userId, pageNos, first, second)
  \/ PageProcessed
  \/ CompleteWritten

SpecStamp == Init /\ [][NextStamp]_vars

\* ------------------------------------------------------------------------
\* RequestQueue (utils/RequestQueue.js)
\* ------------------------------------------------------------------------
MaxAdds == 5
\* the argument the queue is constructed with
requestsPerMinute == 3

\* processQueue up to its await of fn() or to its return
processQueue(q) ==
  IF Len(q.queue) = 0 THEN [q EXCEPT !.processing = FALSE]
  ELSE LET times == SelectSeq(q.requestTimes, LAMBDA ago : ago < 60000)
       IN IF Len(times) >= requestsPerMinute
            THEN [q EXCEPT !.processing = TRUE,
                           !.requestTimes = times,
                           !.timers = Append(@, 60000 - times[1] + 1000)]
          ELSE [q EXCEPT !.processing = TRUE,
                         !.requestTimes = Append(times, 0),
                         !.queue = Tail(@),
                         !.running = @ \cup {Head(q.queue)},
                         !.started = Append(@, Head(q.queue)),
                         !.startedAgo = Append(@, 0)]

\* add that calls processQueue whatever the flag says
addAlwaysProcessing(q) ==
  processQueue([q EXCEPT !.queue = Append(@, Len(q.settled) + 1),
                         !.settled = Append(@, "pending")])

\* add(fn): the executor of the promise it returns
add(q) ==
  LET pushed == [q EXCEPT !.queue = Append(@, Len(q.settled) + 1),
                          !.settled = Append(@, "pending")]
  IN IF ~pushed.processing THEN processQueue(pushed) ELSE pushed

\* processQueue after its await when a rejection ends the processing
fnSettledStoppingOnError(q, fn, settledAs) ==
  LET done == [q EXCEPT !.running = @ \ {fn}, !.settled[fn] = settledAs]
  IN IF Len(done.queue) > 0 /\ settledAs = "resolved"
       THEN [done EXCEPT !.timers = Append(@, 100)]
     ELSE [done EXCEPT !.processing = FALSE]

\* processQueue after its await: fn() settled, the promise of add is
\* resolved or rejected, and the next run is scheduled
fnSettled(q, fn, settledAs) ==
  LET done == [q EXCEPT !.running = @ \ {fn}, !.settled[fn] = settledAs]
  IN IF Len(done.queue) > 0
       THEN [done EXCEPT !.timers = Append(@, 100)]
     ELSE [done EXCEPT !.processing = FALSE]

\* the sequence s without its element at position k
dropAt(s, k) == SubSeq(s, 1, k - 1) \o SubSeq(s, k + 1, Len(s))

\* d ms pass: every time moves d ms into the past (a time older than the
\* minute is as good as any other such time) and every timer d ms closer
aged(q, d) ==
  [q EXCEPT !.requestTimes = [k \in DOMAIN @ |-> Min(@[k] + d, 60000)],
            !.startedAgo = [k \in DOMAIN @ |-> Min(@[k] + d, 60000)],
            !.timers = [k \in DOMAIN @ |-> @[k] - d]]

QueueUnchanged ==
  UNCHANGED <<govVars, storeVars, batchVars, limNow, keyUsage, sleepers,
              calls, entered, retryPc, retryKeys, raised, retryResult,
              passes, backoffVars, stamping>>

Add ==
  /\ Len(requestQueue.settled) < MaxAdds
  /\ requestQueue' = add(requestQueue)
  /\ QueueUnchanged

FnSettles(fn, settledAs) ==
  /\ fn \in requestQueue.running
  /\ requestQueue' = fnSettled(requestQueue, fn, settledAs)
  /\ QueueUnchanged

\* a timer that is due fires: processQueue runs
QueueTimerFires(k) ==
  /\ k \in DOMAIN requestQueue.timers
  /\ requestQueue.timers[k] = 0
  /\ requestQueue' =
       processQueue([requestQueue EXCEPT !.timers = dropAt(@, k)])
  /\ QueueUnchanged

\* time passes, half a minute or up to the next timer
QueueTimePasses(toTimer) ==
  /\ \A k \in DOMAIN requestQueue.timers : requestQueue.timers[k] > 0
  /\ toTimer => requestQueue.timers # <<>>
  /\ LET d == IF toTimer
                THEN CHOOSE x \in {requestQueue.timers[k] :
                                     k \in DOMAIN requestQueue.timers} :
                       \A k \in DOMAIN requestQueue.timers :
                         x <= requestQueue.timers[k]
              ELSE 30000
     IN /\ \A k \in DOMAIN requestQueue.timers : d <= requestQueue.timers[k]
        /\ requestQueue' = aged(requestQueue, d)
  /\ QueueUnchanged

NextQueue ==
  \/ Add
  \/ \E fn \in 1..MaxAdds, settledAs \in {"resolved", "rejected"} :
       FnSettles(fn, settledAs)
  \/ \E k \in 1..MaxAdds : QueueTimerFires(k)
  \/ \E toTimer \in BOOLEAN : QueueTimePasses(toTimer)

\* timers fire when they are due, time passes, and every function that was
\* called settles
SpecQueue ==
  /\ Init /\ [][NextQueue]_vars
  /\ WF_vars(\E fn \in 1..MaxAdds, settledAs \in {"resolved", "rejected"} :
               FnSettles(fn, settledAs))
  /\ WF_vars(\E k \in 1..MaxAdds : QueueTimerFires(k))
  /\ WF_vars(\E toTimer \in BOOLEAN : QueueTimePasses(toTimer))

\* ------------------------------------------------------------------------
\* Properties of the governor and of cancellation
\* ------------------------------------------------------------------------
\* the requests of tenant u that took a slot and have not run their cleanup
Holders(u) == {j \in Jobs : HoldsSlot(j) /\ owner[j] = u}

\* C1: in every reachable state each tenant's active count is at most
\* maxConcurrentPerUser (3) and the global active count is at most
\* maxGlobalConcurrent (15)
C1_CapsRespected ==
  /\ \A u \in Tenants : userProcessingQueues[u] <= maxConcurrentPerUser
  /\ globalActiveCount <= maxGlobalConcurrent

\* C3: the release runs exactly once per reservation: while the process
\* lives, a tenant's active count is the number of its requests that reserved
\* a slot and have not yet been finalized
C3_OneReleasePerReservation ==
  ~exited =>
    \A u \in Tenants :
      userProcessingQueues[u] = Cardinality(Holders(u)) + otherHeld[u]

\* C4: a submission that arrives while its tenant's active count equals
\* maxConcurrentPerUser, or the global count equals maxGlobalConcurrent, is
\* not admitted: every step that takes a request from idle into processing
\* starts from counts below both caps
C4_AdmittedOnlyBelowCap ==
  [][\A j \in Jobs :
       (pc[j] = "idle" /\ pc'[j] \in {"validating", "converting", "analyzing"})
         => canUserStartProcessing(G, owner'[j])]_vars

\* C5: in every reachable state, a cancel request of a tenant that is not the
\* owner of the entry is answered 403, a cancel request for a session id
\* with no entry (unknown, or finished and cleaned up) is answered 404, and
\* in both cases nothing but the response changes: no cancellation flag is
\* set and every request stays where it is
C5_RefusedCancelChangesNothing ==
  \A u \in Tenants, sid \in Jobs :
    LET g == cancelProcessing(G, u, sid)
        e == activeProcessingSessions[sid]
    IN /\ (e # NoEntry /\ e.userId # u)
            => g = [G EXCEPT !.response = Response("cancelProcessing", u, NoFile, 403)]
       /\ e = NoEntry
            => g = [G EXCEPT !.response = Response("cancelProcessing", u, NoFile, 404)]

\* a cancel request was just answered 403 while a request of another tenant
\* is being processed with its flag unset
C5_Witness ==
  /\ response = Response("cancelProcessing", "u2", NoFile, 403)
  /\ \E j \in Jobs :
       /\ pc[j] \in {"converting", "analyzing"}
       /\ activeProcessingSessions[j].userId = "u1"
       /\ ~shouldCancel[j]

\* C11: whatever reservations and releases were made, a release repeated
\* for one reservation and a release for a tenant with no active job
\* included, no tenant's active count and not the global count is negative,
\* and one or two further releases leave them so
C11_CountersNeverNegative ==
  /\ globalActiveCount >= 0
  /\ \A u \in Tenants :
       LET g1 == endUserProcessing(G, u)
           g2 == endUserProcessing(g1, u)
       IN /\ userProcessingQueues[u] >= 0
          /\ g1.queues[u] >= 0 /\ g1.global >= 0
          /\ g2.queues[u] >= 0 /\ g2.global >= 0

\* the first request of the run was refused with 400 from inside its try
\* block: its finally block released a slot for a tenant that had none
C11_Witness ==
  /\ response.status = 400
  /\ pc[1] = "done" /\ \A j \in Jobs \ {1} : pc[j] = "idle"
  /\ \A u \in Tenants : otherHeld[u] = 0 /\ userProcessingQueues[u] = 0
  /\ globalActiveCount = 0

\* ------------------------------------------------------------------------
\* Properties of the pipeline
\* ------------------------------------------------------------------------
\* C6: once the cancellation flag of a job is set, no conversion of a further
\* page and no further model call is started for it
C6_NoStartAfterCancel ==
  [][bCancel =>
       /\ ~(bpc' = "converting" /\ convPage' # convPage)
       /\ \A i \in DOMAIN ist :
            ~(ist[i] # "calling" /\ ist'[i] = "calling")]_vars

\* the completed values equal to total among the progress events written
AtTotal == {i \in DOMAIN progressLog : progressLog[i] = Len(ist)}

\* C7: for a job that is not cancelled the completed values of its progress
\* events are non-decreasing, never exceed total and reach total at most
\* once; the complete event is written only after total was reached, every
\* image having got its result
C7_ProgressReachesTotalOnce ==
  (bkind \in {"selected", "batch"} /\ ~bCancel) =>
    /\ \A i, k \in DOMAIN progressLog :
         i < k => progressLog[i] <= progressLog[k]
    /\ \A i \in DOMAIN progressLog : progressLog[i] <= Len(ist)
    /\ Cardinality(AtTotal) <= 1
    /\ bpc = "complete" =>
         /\ Cardinality(AtTotal) = 1
         /\ \A k \in DOMAIN ist : ist[k] = "done"

\* a job of two or more images, one of which failed, wrote its complete event
C7_Witness ==
  /\ bpc = "complete" /\ ~bCancel
  /\ Len(progressLog) >= 2
  /\ \E k \in DOMAIN outcome : outcome[k] = "fatal"

\* the requests recorded for credential k in the last w ms
Within(k, w) ==
  Cardinality({i \in DOMAIN keyUsage[k].requests :
                 limNow - keyUsage[k].requests[i] < w})

\* C8: at every instant and for every credential, whatever the order in
\* which the callers of waitIfNeeded entered, slept and woke, at most
\* burstLimit (10) requests were recorded in the last burst window (10 s) and
\* at most maxRequestsPerMinute (60) in the last 60 s, and neither list of
\* the credential's entry is longer than its limit
C8_WindowLimitsRespected ==
  \A k \in Keys :
    /\ Within(k, burstWindow) <= burstLimit
    /\ Within(k, minuteWindow) <= maxRequestsPerMinute
    /\ Len(keyUsage[k].burstRequests) <= burstLimit
    /\ Len(keyUsage[k].requests) <= maxRequestsPerMinute

\* both windows of a credential are full while a caller that found the burst
\* window full sleeps, and a request was recorded at the due time of such a
\* timer (burstBuffer after the end of a burst window)
C8_Witness ==
  \E k \in Keys :
    /\ Within(k, burstWindow) = burstLimit
    /\ Within(k, minuteWindow) = maxRequestsPerMinute
    /\ \E s \in sleepers : s.keyIndex = k
    /\ \E i \in DOMAIN keyUsage[k].requests :
         keyUsage[k].requests[i] % burstWindow = burstBuffer

\* C12: a caller of waitIfNeeded that sleeps on a credential's limit is
\* eventually admitted, also when other callers keep arriving
C12_SleeperEventuallyAdmitted == (sleepers # {}) ~> (sleepers = {})

\* C13: with two credentials and a burst limit of one per 10 s, three calls
\* issued back-to-back are handled so that one call is recorded at once on
\* each credential and the third sleeps on the credential it was assigned
\* until that credential's burst window has elapsed: no credential ever has
\* two requests recorded less than a burst window apart
C13_ThirdCallDelayed ==
  /\ (calls = 3 /\ limNow = 0) =>
       /\ \A k \in Pool.keys : keyUsage[k].requests = <<0>>
       /\ sleepers = {[keyIndex |-> 0,
                       wake |-> burstWindow + burstBuffer, n |-> 1]}
  /\ \A k \in DOMAIN keyUsage :
       \A i, j \in DOMAIN keyUsage[k].requests :
         i < j => keyUsage[k].requests[j] - keyUsage[k].requests[i] >= burstWindow

\* three calls were issued at the same instant and the third, having slept
\* through the burst window of its credential, has been recorded
C13_Witness ==
  /\ calls = 3
  /\ keyUsage[0].requests = <<0, burstWindow + burstBuffer>>
  /\ keyUsage[1].requests = <<0>>
  /\ sleepers = {}

\* the events of the given type written so far
EventsOf(type) == {i \in DOMAIN events : events[i].type = type}

\* C14: a processSelectedImages job none of whose images could be loaded
\* makes no model call and its caller is sent exactly one error event
C14_NoValidImageReported ==
  (bkind = "selected" /\ bpc # "idle" /\ validImages(selected) = <<>>) =>
    /\ ist = <<>>
    /\ Cardinality(EventsOf("error")) = 1

\* the positions at which the pipeline of a job is over: the complete event
\* was written (Completed), the stream was ended without one (Cancelled, or
\* nothing to analyse), a promise rejected (Failed), or the images of a
\* converted document are ready
Terminal == {"complete", "ended", "failed", "images_ready"}

\* C15: once the cancellation flag of a job is set no event is written for
\* it; a job that reached a terminal position stays there and writes no
\* further event; at most one terminal event (complete or error) is ever
\* written, and it is the last one
C15_NoEventAfterCancelOrEnd ==
  [][/\ bCancel => events' = events
     /\ bpc \in Terminal => (bpc' = bpc /\ events' = events)
     /\ \A i \in DOMAIN events' :
          events'[i].type \in {"complete", "error"} => i = Len(events')]_vars

\* a job was cancelled after its first progress event; a page that finished
\* later was counted but no event was written for it, and the stream was
\* ended without a complete event
C15_Witness ==
  /\ bpc = "ended" /\ bCancel
  /\ EventsOf("progress") # {}
  /\ completedCount > Len(progressLog)
  /\ EventsOf("complete") = {}

\* the events of the given type written for page number p
PageEvents(type, p) == {i \in EventsOf(type) : events[i].pageNumber = p}

\* C16: for every page number of a job at most one progress event and at
\* most one page_complete event is written, and when the job completes
\* every page that was analysed has exactly one progress event
C16_OneEventPerPage ==
  \A p \in PageNos :
    /\ Cardinality(PageEvents("progress", p)) <= 1
    /\ Cardinality(PageEvents("page_complete", p)) <= 1
    /\ (bpc = "complete"
          /\ \E i \in DOMAIN selected : selected[i].pageNumber = p /\ Loaded(selected[i]))
         => Cardinality(PageEvents("progress", p)) = 1

\* the entries of the final aggregate for page number p
EntriesOf(p) == {k \in DOMAIN allPagesData : allPagesData[k].pageNumber = p}

\* C17: a selected page whose image could not be loaded is not among the
\* images submitted to analyzeImagesUltraFast, does not make the job fail,
\* and has exactly one entry in the allPagesData of the complete event, with
\* its error set and no items
C17_FailedPageOnceInAggregate ==
  bkind = "selected" =>
    /\ Len(ist) = Len(validImages(selected))
    /\ bpc # "failed"
    /\ bpc = "complete" =>
         \A i \in DOMAIN selected :
           ~Loaded(selected[i]) =>
             /\ Cardinality(EntriesOf(selected[i].pageNumber)) = 1
             /\ \A k \in EntriesOf(selected[i].pageNumber) :
                  /\ allPagesData[k].error = "Failed to load page"
                  /\ allPagesData[k].items = 0

\* no page number is given twice in the request
DistinctPages ==
  \A i, j \in DOMAIN selected :
    i # j => selected[i].pageNumber # selected[j].pageNumber

\* the image of page p could not be loaded, or the last reply for it was an
\* error or a text that is not an array of items
NotProcessed(p) ==
  \E i \in DOMAIN selected :
    /\ selected[i].pageNumber = p
    /\ \/ ~Loaded(selected[i])
       \/ outcome[findIndex(validImages(selected), p)] \notin
            {"data", "empty"}

\* C18: in the complete event of a request with distinct page numbers, an
\* entry of allPagesData has a non-null error exactly when its page could
\* not be loaded or analysed, and the entry of a page whose reply was the
\* empty array has no items and a null error
C18_ErrorIffNotProcessed ==
  (bpc = "complete" /\ DistinctPages) =>
    \A k \in DOMAIN allPagesData :
      LET e == allPagesData[k]
      IN /\ (e.error # "null") <=> NotProcessed(e.pageNumber)
         /\ ~NotProcessed(e.pageNumber) =>
              (e.items = 0 <=>
                 outcome[findIndex(validImages(selected), e.pageNumber)]
                   = "empty")

\* the session exists and was created by a tenant other than u
Foreign(u, sid) == sessionData[sid].userId \notin {u, NoUser}

\* a processSelectedImages request for a foreign session is answered 403,
\* starts no analysis, takes no slot (its finally block may give one of the
\* caller's own back) and leaves sessions, entries and files alone
SelectedRefused(j, u, sid, anyValid) ==
  (Foreign(u, sid) /\ ProcessSelectedImages(j, u, sid, TRUE, anyValid)) =>
    /\ response' = Response("processSelectedImages", u, NoFile, 403)
    /\ pc'[j] # "analyzing"
    /\ \A v \in Tenants : userProcessingQueues'[v] <= userProcessingQueues[v]
    /\ globalActiveCount' <= globalActiveCount
    /\ activeProcessingSessions' = activeProcessingSessions
    /\ UNCHANGED storeVars

\* a cleanupSessionImages request for a foreign session is answered 403 and
\* deletes neither a file nor a session
CleanupRefused(u, sid) ==
  (Foreign(u, sid) /\ CleanupSessionImages(u, sid)) =>
    /\ response' = Response("cleanupSessionImages", u, NoFile, 403)
    /\ UNCHANGED storeVars

\* C19: processSelectedImages and cleanupSessionImages called with the
\* session of another tenant are refused with 403, start nothing and delete
\* nothing, and getUserSessions lists only sessions the caller created
C19_ForeignSessionRefused ==
  /\ [](\A u \in Tenants : \A sid \in getUserSessions(G, u) :
         sessionData[sid].userId = u)
  /\ [][/\ \A j \in Jobs, u \in Tenants, sid \in Jobs, anyValid \in BOOLEAN :
            SelectedRefused(j, u, sid, anyValid)
        /\ \A u \in Tenants, sid \in Jobs : CleanupRefused(u, sid)]_vars

\* a tenant was answered 403 by processSelectedImages while sessions exist
\* and every one of them, listed by getUserSessions for its creator, belongs
\* to another tenant
C19_Witness ==
  \E u \in Tenants :
    /\ response = Response("processSelectedImages", u, NoFile, 403)
    /\ getUserSessions(G, u) = {}
    /\ \E v \in Tenants \ {u} : getUserSessions(G, v) # {}

\* C20: at any time at most 8 x (number of keys) images of a request are
\* in flight, an image being in flight from the start of its processImage
\* until its result is stored
C20_AtMostMaxConcurrentInFlight ==
  Cardinality(inFlight) <= MAX_CONCURRENT

\* the handlers that submit work
Submissions == {"processPDF", "processSelectedImages", "processImage",
                "processBatchImages"}

\* C21: a submission answered 400 or 403, which is refused before
\* startUserProcessing, leaves every tenant's active count, the global
\* count, activeProcessingSessions and the session store as they were, also
\* while the tenant has other jobs running
C21_RefusalMutatesNothing ==
  [][(/\ response = NoResponse
      /\ response'.op \in Submissions
      /\ response'.status \in {400, 403})
       => /\ userProcessingQueues' = userProcessingQueues
          /\ globalActiveCount' = globalActiveCount
          /\ activeProcessingSessions' = activeProcessingSessions
          /\ UNCHANGED storeVars]_vars

\* C22: while the process lives, for every admitted request that is
\* converting or analyzing and has neither been cancelled nor cleaned up, a
\* cancel request of its owner, for
\* some session id, is answered 200 and sets the shouldCancel flag of that
\* request
C22_OwnerCancelSetsFlag ==
  \A j \in Jobs :
    (~exited /\ pc[j] \in {"converting", "analyzing"} /\ ~isCleanedUp[j]
       /\ ~shouldCancel[j]) =>
      \E sid \in Jobs :
        LET g == cancelProcessing(G, owner[j], sid)
        IN g.response.status = 200 /\ g.shouldCancel[j]

\* C23: an admitted job that is analyzing eventually reaches a terminal
\* state, where its finally block releases its slot, whatever cancel
\* requests arrive, provided every model call that was issued returns
C23_AdmittedJobEventuallyEnds ==
  (bpc = "analyzing") ~> (bpc \in {"complete", "ended"})

\* the files and ownership records of session sid are gone after the step,
\* and those of every other session are as before it
RevokedOnly(sid) ==
  \A f \in Jobs \X Pages :
    IF f[1] = sid
      THEN f \notin disk' /\ imageOwnership'[f] = NoUser
      ELSE (f \in disk => f \in disk') /\ imageOwnership'[f] = imageOwnership[f]

\* C24: pdfService.cleanupSessionImages with removeSession removes the files
\* and ownership records of its session and of no other session, whatever
\* the other session's tenant or timestamp; removeSession called with a
\* tenant that is not the owner of the session changes nothing
C24_RevokeRemovesOnlyOwn ==
  /\ [](\A u \in Tenants, sid \in Jobs :
         sessionData[sid].userId # u => removeSession(G, u, sid) = G)
  /\ [][\A sid \in Jobs : SessionImagesCleaned(sid) => RevokedOnly(sid)]_vars

\* C25: a run of the periodic clean-up removes, for every session older
\* than maxAge, the ownership records of its images and deletes their files
C25_SweepDeletesFiles ==
  [][\A sid \in Jobs :
       (Sweep /\ sid \in expiredSessions(G)) =>
         \A f \in images[sid] :
           imageOwnership'[f] = NoUser /\ f \notin disk']_vars

\* the session exists and is older than maxAge
TooOld(sid) ==
  sessionData[sid] # NoSession /\ now - createdAt[sid] > maxAge

\* C26: cleanupOldSessions returns exactly the sessions older than maxAge;
\* after it each of them is gone from sessionData and from every tenant's
\* session set and none of its images has an ownership record, and every
\* other session, its image set and its ownership records are as before
C26_SweepExpiredExactly ==
  LET g == cleanupOldSessions(G)
  IN /\ expiredSessions(G) = {sid \in Jobs : TooOld(sid)}
     /\ \A sid \in Jobs :
          IF TooOld(sid)
            THEN /\ g.sd[sid] = NoSession
                 /\ \A u \in Tenants : sid \notin g.us[u]
                 /\ \A f \in images[sid] : g.io[f] = NoUser
            ELSE /\ g.sd[sid] = sessionData[sid]
                 /\ g.createdAt[sid] = createdAt[sid]
                 /\ g.images[sid] = images[sid]
                 /\ \A u \in Tenants : sid \in g.us[u] <=> sid \in userSessions[u]
                 /\ \A f \in images[sid] : g.io[f] = imageOwnership[f]

\* the periodic clean-up has removed a session, whose image file is still
\* on disk, and has left a session that is exactly maxAge old, with its
\* image and ownership record
C26_Witness ==
  \E a \in Jobs, b \in Jobs :
    /\ sessionData[a] = NoSession /\ \E f \in disk : f[1] = a
    /\ sessionData[b] # NoSession /\ now - createdAt[b] = maxAge
    /\ \E f \in images[b] : imageOwnership[f] = sessionData[b].userId

\* the live sessions whose image set contains f
SessionsOf(f) ==
  {sid \in Jobs : sessionData[sid] # NoSession /\ f \in images[sid]}

\* C27: every image that has an ownership record is in the image set of
\* exactly one live session, and the owner the record names is the tenant of
\* that session
C27_RecordMatchesSession ==
  \A f \in FileNames :
    imageOwnership[f] # NoUser =>
      /\ Cardinality(SessionsOf(f)) = 1
      /\ \A sid \in SessionsOf(f) : sessionData[sid].userId = imageOwnership[f]

\* images of sessions of two tenants are registered at the same time
C27_Witness ==
  \E f \in FileNames, h \in FileNames :
    imageOwnership[f] = "u1" /\ imageOwnership[h] = "u2"

\* C28: every session record is eventually destroyed: once created, it is
\* at some later time neither in sessionData nor in the list getUserSessions
\* gives any tenant
C28_SessionEventuallyDestroyed ==
  \A sid \in StoreJobs :
    (sessionData[sid] # NoSession) ~>
      (/\ sessionData[sid] = NoSession
       /\ \A u \in Tenants : sid \notin getUserSessions(G, u))

\* C29: retryUltraFast calls fn at most maxRetries times; it calls fn again
\* only after an error that signals throttling, an exhausted quota or a
\* network failure, so a fatal error ends it after that one attempt; when it
\* gives up it throws the last error fn raised; when fn returns it returns
\* fn's result and calls fn no more.
C29_RetriesOnlyRetryable ==
  /\ Len(retryKeys) <= maxRetries
  /\ \A i \in 1..Len(raised) :
       raised[i].signals \notin {"throttling", "quota", "network"}
         => Len(retryKeys) <= i
  /\ retryPc = "thrown" => retryResult = raised[Len(raised)]
  /\ retryPc = "returned" =>
       retryResult = FnResult /\ Len(retryKeys) = Len(raised) + 1

\* C30: with two credentials configured, the retry that follows a throttling
\* or quota error is not issued on the credential of the failed attempt.
C30_RetryChangesCredential ==
  \A i \in 2..Len(retryKeys) :
    raised[i - 1].signals \in {"throttling", "quota"}
      => retryKeys[i] # retryKeys[i - 1]

\* C31: a caller of waitIfNeeded that is blocked re-checks when its wait is
\* over and goes through at most one wait per blocking condition (the burst
\* limit, the limit per minute) before its request is recorded.
C31_OneWaitPerCondition ==
  /\ Cardinality({i \in DOMAIN passes : passes[i] = "burst"}) <= 1
  /\ Cardinality({i \in DOMAIN passes : passes[i] = "minute"}) <= 1

\* C32: getBestAvailableKey returns the credential that minimises the
\* number of requests inside the 60 s window plus twice the number inside the
\* burst window, the lowest index among those of least load, and a call
\* issued changes the ledger of no credential but the one returned.
CountIn(times, t, window) ==
  Cardinality({k \in DOMAIN times : t - times[k] < window})
LoadOf(i) ==
  CountIn(keyUsage[i].requests, limNow, 60000)
    + 2 * CountIn(keyUsage[i].burstRequests, limNow, burstWindow)
LeastLoaded ==
  LET bestKey == getBestAvailableKey(keyUsage, Pool.keys, limNow)
  IN /\ bestKey \in Pool.keys
     /\ \A o \in Pool.keys : LoadOf(bestKey) <= LoadOf(o)
     /\ \A o \in Pool.keys : LoadOf(o) = LoadOf(bestKey) => bestKey <= o
C32_PicksLeastLoaded ==
  [][/\ LeastLoaded
     /\ LeastLoaded'
     /\ calls' # calls =>
          \A o \in Pool.keys :
            o # getBestAvailableKey(keyUsage, Pool.keys, limNow)
              => keyUsage'[o] = keyUsage[o]]_vars

\* the second credential is returned, the first carrying the greater load,
\* and a request of the second has left the burst window but not the minute
C32_Witness ==
  /\ getBestAvailableKey(keyUsage, Pool.keys, limNow) = 1
  /\ LoadOf(0) > LoadOf(1)
  /\ CountIn(keyUsage[1].requests, limNow, 60000)
       > CountIn(keyUsage[1].burstRequests, limNow, burstWindow)

\* C33: within one analyzeImagesUltraFast call a slot of results, once
\* written, is never written again: a page recorded as done stays done and a
\* page recorded as failed stays failed.
C33_SlotWrittenOnce ==
  [][\A i \in DOMAIN results :
       results[i] # NoResult
         => i \in DOMAIN results' /\ results'[i] = results[i]]_vars

\* one page is recorded as done, one as failed, and one is still in flight
C33_Witness ==
  \E k, m, n \in DOMAIN results :
    /\ results[k] = [parsed |-> 1, error |-> "null"]
    /\ results[m].error = "message"
    /\ results[n] = NoResult
    /\ ist[n] = "calling"

\* C34: a job holds its slot for as long as analyzeImagesUltraFast is
\* working on its pages, so the jobs of one tenant with pages in flight are
\* at most maxConcurrentPerUser and those of all tenants at most
\* maxGlobalConcurrent.
C34_SlotHeldWhilePagesInFlight ==
  /\ \A j \in Jobs : pc[j] = "analyzing" => ~isCleanedUp[j]
  /\ \A u \in Tenants :
       Cardinality({j \in Jobs : pc[j] = "analyzing" /\ owner[j] = u})
         + otherHeld[u] <= maxConcurrentPerUser
  /\ Cardinality({j \in Jobs : pc[j] = "analyzing"})
       <= maxGlobalConcurrent

\* C35: the global active count is the sum of the active counts of the
\* tenants: a reservation increments both, and a release decrements both or,
\* the tenant's count being zero, changes neither.
RECURSIVE SumOf(_, _)
SumOf(f, S) ==
  IF S = {} THEN 0
  ELSE LET x == CHOOSE y \in S : TRUE IN f[x] + SumOf(f, S \ {x})
C35_GlobalIsSumOfTenants ==
  /\ globalActiveCount = SumOf(userProcessingQueues, Tenants)
  /\ \A u \in Tenants :
       LET e == endUserProcessing(G, u)
       IN IF userProcessingQueues[u] = 0 THEN e = G
          ELSE /\ e.global = globalActiveCount - 1
               /\ e.queues = [userProcessingQueues EXCEPT ![u] = @ - 1]

\* a request was refused and its finally block released a tenant that held
\* nothing, while another tenant holds a slot
C35_Witness ==
  /\ response.status = 400
  /\ response.userId \in Tenants
  /\ userProcessingQueues[response.userId] = 0
  /\ globalActiveCount > 0
  /\ \E u \in Tenants : userProcessingQueues[u] = globalActiveCount

\* C36: the backoff grows with the attempt: the delays retryUltraFast awaits
\* are 200 ms + 300 ms x attempt, the waits of convertPDFPageToImage are
\* min(1000 x 2^retryCount, 5000) ms, and every delay awaited is greater than
\* the one before it.
C36_BackoffIncreases ==
  /\ \A i \in DOMAIN delays : delays[i] = 200 + 300 * (i - 1)
  /\ \A i \in DOMAIN conversion.waits :
       conversion.waits[i] =
         IF 1000 * 2^(i - 1) < 5000 THEN 1000 * 2^(i - 1) ELSE 5000
  /\ \A i \in DOMAIN delays : i > 1 => delays[i] > delays[i - 1]
  /\ \A i \in DOMAIN conversion.waits :
       i > 1 => conversion.waits[i] > conversion.waits[i - 1]

\* the conversion failed after its last retry and the model call was retried
C36_Witness ==
  /\ conversion.pc = "failed"
  /\ Len(conversion.waits) = conversionMaxRetries
  /\ Len(delays) = maxRetries - 1

\* C37: every item of the collections of a complete payload carries the
\* page number of the page it was extracted from and the job id and tenant
\* id of the job that produced it.
C37_ItemsStamped ==
  stamping.pc = "complete" =>
    \A k \in DOMAIN stamping.collectedResult :
      LET item == stamping.collectedResult[k]
      IN item.stamp = [pageNumber |-> item.from,
                       sessionId |-> stamping.sessionId,
                       userId |-> stamping.userId]

\* C38: RequestQueue calls the functions one at a time, in the order of
\* their add calls, and calls at most requestsPerMinute of them within any
\* 60 seconds.
C38_OneAtATimeInOrder ==
  /\ Cardinality(requestQueue.running) <= 1
  /\ requestQueue.started = [k \in DOMAIN requestQueue.started |-> k]
  /\ Cardinality({k \in DOMAIN requestQueue.startedAgo :
                    requestQueue.startedAgo[k] < 60000}) <= requestsPerMinute

\* requestsPerMinute functions were called within the minute and the next
\* one waits for the timer of the rate limit
C38_Witness ==
  /\ Cardinality({k \in DOMAIN requestQueue.startedAgo :
                    requestQueue.startedAgo[k] < 60000}) = requestsPerMinute
  /\ requestQueue.queue # <<>>
  /\ requestQueue.running = {}
  /\ \E k \in DOMAIN requestQueue.timers : requestQueue.timers[k] > 100

C9_StrictlyAscending ==
  bpc = "complete" =>
    \A i \in 1..(Len(allPagesData) - 1) :
      allPagesData[i].pageNumber < allPagesData[i + 1].pageNumber

\* C10: a failed model call of one page never fails the batch: no processImage
\* promise rejects, an image has a result exactly when it is done, at its own
\* index: the parsed response of its last call, or empty items and the error
\* message when that call failed; when the analysis is over every submitted
\* image has one
C10_PageFailureIsolated ==
  /\ ~rejected /\ bpc # "failed"
  /\ Len(results) = Len(ist)
  /\ \A k \in DOMAIN ist :
       results[k] =
         IF ist[k] # "done" THEN NoResult
         ELSE IF outcome[k] \in {"retryable", "fatal"}
           THEN [parsed |-> 0, error |-> "message"]
           ELSE parseGeminiResponse(outcome[k])
  /\ (bpc \in {"complete", "ended"} /\ bkind # "pdf") =>
       \A k \in DOMAIN ist : ist[k] = "done"

\* an analysis is over in which one page failed after its retry and another
\* page returned data
C10_Witness ==
  /\ bpc = "complete"
  /\ \E k, m \in DOMAIN ist :
       /\ outcome[k] = "retryable" /\ attempt[k] = maxRetries - 1
       /\ results[k].error = "message"
       /\ results[m] = [parsed |-> 1, error |-> "null"]

====
